---- MODULE Spec2Model ----
(***************************************************************************)
(* Model of the FlexFX extension (src/flexFX.ts): the recipe registry      *)
(* (flexFXList, storeFlexFX), the profile compiler (FlexFX.compilePlay)    *)
(* and the play-list scheduler (activatePlayer, player and the play-list   *)
(* blocks).                                                                *)
(*                                                                         *)
(* Numbers.  Ratios are fractions in the source (percent / 100).  They are *)
(* kept here as integers counted in units of 1/RatioUnit, so every product *)
(* "performance value * ratio" is an integer counted in the same unit.     *)
(*                                                                         *)
(* Scheduling.  The code runs on cooperatively scheduled fibers: a fiber   *)
(* runs until it blocks (pause, music.playSoundEffect(..., UntilDone),     *)
(* control.waitForEvent).  control.inBackground queues a new fiber and     *)
(* control.raiseEvent makes the fibers waiting for the event runnable;     *)
(* neither switches fibers.  So each action below is the code executed     *)
(* between two blocking points.                                            *)
(***************************************************************************)
EXTENDS Integers, Sequences, FiniteSets, TLC

\* ---------------------------------------------------------------- bounds
\* how many Plays may be appended to the play-list in one run
MaxPlays == 2
\* how many FlexFX the registry may hold before no further one is stored
MaxRegistry == 6

\* ------------------------------------------------------------- fixed point
RatioUnit == 100 * 100
\* faulty variant: the percentage taken as the ratio, not divided by 100
PctWhole(p) == p * RatioUnit

\* <percent> / 100, as done by the create...FlexFX blocks
Pct(p) == (p * RatioUnit) \div 100

Min(a, b) == IF a < b THEN a ELSE b
Max(a, b) == IF a > b THEN a ELSE b

\* ------------------------------------------------------------- the registry
\* array of built-in FlexFX ids (indexed from 0 in the source)
builtInId ==
    << "laugh", "uh-oh", "scream", "cry", "moan",
       "shout", "violin", "horn", "sax", "flute",
       "tweet", "ting", "chime", "whale", "miaow",
       "cluck", "woof", "moo", "motor", "siren" >>

\* enum BuiltInFlexFX: the members used by the module's initialisation
LAUGH == 0
VIOLIN == 6
HORN == 7
MIAOW == 14
SIREN == 19
\* the <builtIn> argument of a user-defined FlexFX
UserDefined == 1000

\* new FlexFX(id): the three play flags and the two point flags are cleared;
\* every other property is left unset.  An unset number is written 0 and an
\* unset boolean FALSE (skipPartB is only ever tested for truth); no unset
\* number is read by compilePlay, which reads a ratio only under the flag
\* that the method setting it also sets.
FlexFX(id) ==
    [ id |-> id,
      playPartA |-> FALSE, waveA |-> "", attackA |-> "", effectA |-> "", timeRatioA |-> 0,
      skipPartB |-> FALSE,
      playPartB |-> FALSE, waveB |-> "", attackB |-> "", effectB |-> "", timeRatioB |-> 0,
      playPartC |-> FALSE, waveC |-> "", attackC |-> "", effectC |-> "", timeRatioC |-> 0,
      freqRatio0 |-> 0, volRatio0 |-> 0,
      freqRatio1 |-> 0, volRatio1 |-> 0,
      usesPoint2 |-> FALSE, freqRatio2 |-> 0, volRatio2 |-> 0,
      usesPoint3 |-> FALSE, freqRatio3 |-> 0, volRatio3 |-> 0,
      defaultFreq |-> 0, defaultVol |-> 0, defaultMs |-> 0 ]

goodFreqRatio(freq) == Min(Max(freq, 0), 2000 * RatioUnit)
\* faulty variant: goodVolRatio() that lets every volume ratio through
goodVolRatioUnclamped(vol) == vol
goodVolRatio(vol) == Min(Max(vol, 0), 100 * RatioUnit)
\* faulty variant: goodTimeRatio() that does not cap at the time left
goodTimeRatioUncapped(time, timeLeft) == Max(time, 0)
goodTimeRatio(time, timeLeft) == Min(Max(time, 0), timeLeft)

setPartA(fx, freq0, vol0, wave, attack, effect, freq1, vol1, ms1) ==
    [ fx EXCEPT
        !.freqRatio0 = goodFreqRatio(freq0),
        !.volRatio0 = goodVolRatio(vol0),
        !.freqRatio1 = goodFreqRatio(freq1),
        !.volRatio1 = goodVolRatio(vol1),
        !.timeRatioA = goodTimeRatio(ms1, RatioUnit),
        !.waveA = wave, !.attackA = attack, !.effectA = effect,
        !.playPartA = TRUE,
        !.playPartB = FALSE, !.playPartC = FALSE,
        !.usesPoint2 = FALSE, !.usesPoint3 = FALSE ]

setPartB(fx, wave, attack, effect, freq2, vol2, ms2) ==
    [ fx EXCEPT
        !.freqRatio2 = goodFreqRatio(freq2),
        !.volRatio2 = goodVolRatio(vol2),
        !.timeRatioB = goodTimeRatio(ms2, RatioUnit - fx.timeRatioA),
        !.waveB = wave, !.attackB = attack, !.effectB = effect,
        !.playPartB = TRUE,
        !.usesPoint2 = TRUE ]

\* faulty variant: silentPartB() that does not set skipPartB
silentPartBNoSkip(fx, freq2, vol2, ms2) ==
    [ fx EXCEPT
        !.freqRatio2 = goodFreqRatio(freq2),
        !.volRatio2 = goodVolRatio(vol2),
        !.timeRatioB = goodTimeRatio(ms2, RatioUnit - fx.timeRatioA) ]

silentPartB(fx, freq2, vol2, ms2) ==
    [ fx EXCEPT
        !.freqRatio2 = goodFreqRatio(freq2),
        !.volRatio2 = goodVolRatio(vol2),
        !.timeRatioB = goodTimeRatio(ms2, RatioUnit - fx.timeRatioA),
        !.skipPartB = TRUE ]

setPartC(fx, wave, attack, effect, freq3, vol3, ms3) ==
    [ fx EXCEPT
        !.freqRatio3 = goodFreqRatio(freq3),
        !.volRatio3 = goodVolRatio(vol3),
        !.timeRatioC = goodTimeRatio(ms3, RatioUnit - fx.timeRatioA - fx.timeRatioB),
        !.waveC = wave, !.attackC = attack, !.effectC = effect,
        !.playPartC = TRUE,
        !.usesPoint2 = TRUE,
        !.usesPoint3 = TRUE ]

setDefaults(fx, freq, vol, ms) ==
    [ fx EXCEPT !.defaultFreq = freq, !.defaultVol = vol, !.defaultMs = ms ]

\* Array.find(i => i.id === id): the position (from 1) of the first FlexFX
\* with this id, 0 when there is none (find() gives undefined)
find(list, id) ==
    IF \E i \in 1..Len(list) : list[i].id = id
    THEN CHOOSE i \in 1..Len(list) :
            /\ list[i].id = id
            /\ \A j \in 1..(i - 1) : list[j].id # id
    ELSE 0

\* list.indexOf(list.find(...), 1), as a source index (from 0, -1 for "not
\* there"): the search for the found object starts at source index 1, so an
\* object sitting at source index 0 is not seen; undefined is never there.
indexOfFrom1(list, id) ==
    IF find(list, id) >= 2 THEN find(list, id) - 1 ELSE -1

\* The two things a build makes of a negative start in splice(start, 1):
\* the ECMAScript array counts it back from the end (-1 is the last element),
\* the MakeCode array helper ignores the call.
SpliceModes == { "fromEnd", "ignored" }

RemoveAt(list, k) ==
    [ i \in 1..(Len(list) - 1) |-> IF i < k THEN list[i] ELSE list[i + 1] ]

\* list.splice(start, 1), start a source index
splice1(list, start, mode) ==
    IF start >= 0
    THEN IF start < Len(list) THEN RemoveAt(list, start + 1) ELSE list
    ELSE IF mode = "fromEnd" /\ Len(list) > 0
         THEN RemoveAt(list, Max(Len(list) + start, 0) + 1)
         ELSE list

\* storeFlexFX(builtIn, target) applied to the registry <list>
storeFlexFX(list, mode, builtIn, target) ==
    LET cut == splice1(list, indexOfFrom1(list, target.id), mode)
        named == IF builtIn < 1000
                 THEN [ target EXCEPT !.id = builtInId[builtIn + 1] ]
                 ELSE target
    IN  Append(cut, named)

createFlexFX(list, mode, id, startPitchPercent, startVolPercent, wave, attack, effect, endPitchPercent, endVolPercent, pitch, volume, duration, builtIn) ==
    LET t1 == setPartA(FlexFX(id), Pct(startPitchPercent), Pct(startVolPercent),
                       wave, attack, effect,
                       Pct(endPitchPercent), Pct(endVolPercent), RatioUnit)
        t2 == setDefaults(t1, pitch, volume, duration)
    IN  storeFlexFX(list, mode, builtIn, t2)

create2PartFlexFX(list, mode, id, startPitchPercent, startVolPercent, waveA, attackA, effectA, midPitchPercent, midVolPercent, waveB, attackB, effectB, endPitchPercent, endVolPercent, timePercentA, pitch, volume, duration, builtIn) ==
    LET t1 == setPartA(FlexFX(id), Pct(startPitchPercent), Pct(startVolPercent),
                       waveA, attackA, effectA,
                       Pct(midPitchPercent), Pct(midVolPercent), Pct(timePercentA))
        \* the source passes (100 - timePercentA / 100)
        t2 == setPartB(t1, waveB, attackB, effectB,
                       Pct(endPitchPercent), Pct(endVolPercent),
                       100 * RatioUnit - Pct(timePercentA))
        t3 == setDefaults(t2, pitch, volume, duration)
    IN  storeFlexFX(list, mode, builtIn, t3)

create3PartFlexFX(list, mode, id, startPitchPercent, startVolPercent, waveA, attackA, effectA, pitchABPercent, volABPercent, waveB, attackB, effectB, pitchBCPercent, volBCPercent, waveC, attackC, effectC, endPitchPercent, endVolPercent, timePercentA, timePercentB, pitch, volume, duration, builtIn) ==
    LET t1 == setPartA(FlexFX(id), Pct(startPitchPercent), Pct(startVolPercent),
                       waveA, attackA, effectA,
                       Pct(pitchABPercent), Pct(volABPercent), Pct(timePercentA))
        t2 == setPartB(t1, waveB, attackB, effectB,
                       Pct(pitchBCPercent), Pct(volBCPercent), Pct(timePercentB))
        t3 == setPartC(t2, waveC, attackC, effectC,
                       Pct(endPitchPercent), Pct(endVolPercent),
                       Pct(100 - timePercentA - timePercentB))
        t4 == setDefaults(t3, pitch, volume, duration)
    IN  storeFlexFX(list, mode, builtIn, t4)

createDoubleFlexFX(list, mode, id, startPitchAPercent, startVolAPercent, waveA, attackA, effectA, endPitchAPercent, endVolAPercent, startPitchBPercent, startVolBPercent, waveB, attackB, effectB, endPitchBPercent, endVolBPercent, timePercentA, timeGapPercent, pitch, volume, duration, builtIn) ==
    LET t1 == setPartA(FlexFX(id), Pct(startPitchAPercent), Pct(startVolAPercent),
                       waveA, attackA, effectA,
                       Pct(endPitchAPercent), Pct(endVolAPercent), Pct(timePercentA))
        t2 == silentPartB(t1, Pct(startPitchBPercent), Pct(startVolBPercent),
                          Pct(timeGapPercent))
        t3 == setPartC(t2, waveB, attackB, effectB,
                       Pct(endPitchBPercent), Pct(endVolBPercent),
                       Pct(100 - timePercentA - timeGapPercent))
        t4 == setDefaults(t3, pitch, volume, duration)
    IN  storeFlexFX(list, mode, builtIn, t4)

\* The registry after the module's initialisation: the four built-in sounds
\* stored in turn on an empty flexFXList, each created with id "".
BuiltInList(mode) ==
    LET l1 == create2PartFlexFX(<< >>, mode, "", 70, 50,
                  "SAWTOOTH", "MEDIUM", "NONE", 100, 100,
                  "SAWTOOTH", "SLOW", "NONE", 90, 80, 30,
                  900, 255, 1000, MIAOW)
        l2 == create2PartFlexFX(l1, mode, "", 5, 50,
                  "SAWTOOTH", "FAST", "NONE", 100, 100,
                  "SINE", "SLOW", "NONE", 100, 80, 7,
                  250, 255, 500, HORN)
        l3 == createDoubleFlexFX(l2, mode, "",
                  95, 80, "SAWTOOTH", "SLOW", "NONE", 100, 100,
                  70, 100, "SAWTOOTH", "SLOW", "NONE", 75, 80, 45, 10,
                  800, 200, 1000, SIREN)
        l4 == create3PartFlexFX(l3, mode, "", 1, 100,
                  "SAWTOOTH", "FAST", "NONE", 100, 75,
                  "SAWTOOTH", "SLOW", "NONE", 100, 75,
                  "SAWTOOTH", "SLOW", "NONE", 10, 100, 10, 85,
                  440, 200, 500, VIOLIN)
    IN  l4

\* ------------------------------------------------------------ the compiler
\* faulty variant: the sound-string with start and end values swapped
createSoundEffectSwapped(wave, startFreq, endFreq, startVol, endVol, ms, effect, attack) ==
    [ tag |-> "sound", wave |-> wave, startFreq |-> endFreq, endFreq |-> startFreq,
      startVol |-> endVol, endVol |-> startVol, ms |-> ms,
      effect |-> effect, attack |-> attack ]

\* music.createSoundEffect(wave, startFreq, endFreq, startVol, endVol, ms,
\* effect, attack): the sound-string of one part.  Its first character is a
\* digit, never 's' or '_', which is all that player() reads of it; the
\* arguments are kept so that the parts can be compared.
createSoundEffect(wave, startFreq, endFreq, startVol, endVol, ms, effect, attack) ==
    [ tag |-> "sound", wave |-> wave, startFreq |-> startFreq, endFreq |-> endFreq,
      startVol |-> startVol, endVol |-> endVol, ms |-> ms,
      effect |-> effect, attack |-> attack ]

\* <prefix> + convertToText(n): a one-character tag followed by the decimal
\* text of the whole number n, which parseInt(sound.slice(1)) reads back
Tagged(prefix, n) == [ tag |-> prefix, ms |-> n ]

\* faulty variant: the gap cut down to whole tens of milliseconds
FloorTens(x) == 10 * (x \div (10 * RatioUnit))

\* Math.floor(x) of a value counted in 1/RatioUnit
Floor(x) == x \div RatioUnit

\* faulty variant: a zero argument is used as it is
PickUpNever(arg, default) == arg

\* "pick up performance defaults?": if (arg == 0) { arg = this.default...; }
PickUp(arg, default) == IF arg = 0 THEN default ELSE arg

\* The parts of the Play that FlexFX.compilePlay(freq, vol, ms) builds for <fx>
compilePlay(fx, freqArg, volArg, msArg) ==
    LET freq == PickUp(freqArg, fx.defaultFreq)
        vol == PickUp(volArg, fx.defaultVol)
        ms == PickUp(msArg, fx.defaultMs)
        f0 == freq * fx.freqRatio0
        v0 == vol * fx.volRatio0
        f1 == freq * fx.freqRatio1
        v1 == vol * fx.volRatio1
        ms1 == ms * fx.timeRatioA
        f2 == IF fx.usesPoint2 THEN freq * fx.freqRatio2 ELSE 0
        v2 == IF fx.usesPoint2 THEN vol * fx.volRatio2 ELSE 0
        ms2 == IF fx.usesPoint2 THEN ms * fx.timeRatioB ELSE 0
        f3 == IF fx.usesPoint3 THEN freq * fx.freqRatio3 ELSE 0
        v3 == IF fx.usesPoint3 THEN vol * fx.volRatio3 ELSE 0
        ms3 == IF fx.usesPoint3 THEN ms * fx.timeRatioC ELSE 0
        partA == IF fx.playPartA
                 THEN << createSoundEffect(fx.waveA, f0, f1, v0, v1, ms1, fx.effectA, fx.attackA) >>
                 ELSE << >>
        partB == IF fx.playPartB
                 THEN << createSoundEffect(fx.waveB, f1, f2, v1, v2, ms2, fx.effectB, fx.attackB) >>
                 ELSE IF fx.skipPartB
                      THEN << Tagged("_", Floor(ms * fx.timeRatioB)) >>
                      ELSE << >>
        partC == IF fx.playPartC
                 THEN << createSoundEffect(fx.waveC, f2, f3, v2, v3, ms3, fx.effectC, fx.attackC) >>
                 ELSE << >>
    IN  partA \o partB \o partC

\* ---------------------------------------------------------------- the state
VARIABLES
    flexFXList,     \* array of all defined FlexFX objects
    spliceMode,     \* what the build makes of splice(-1, 1), see SpliceModes
    playList,       \* the play-list: Plays waiting to be played
    playerPlaying,  \* control flag: a performance is being played
    playerActive,   \* control flag: the background player has been kicked off
    playerStopped,  \* control flag: activation of the player is inhibited
    workers,        \* the fibers running player(), in the order they were started
    callers,        \* the fibers calling the blocks: idle, or inside a block
    evs,            \* the events raised by the latest step, in order
    step,           \* the latest step: which block was called or returned from
    nextSeq,        \* the serial number the next Play appended will carry
    taken,          \* the serial numbers of the Plays taken off the play-list by
                    \* player(), in the order it took them
    stopAt          \* -1, or, when stopPlaying() has been called and
                    \* startPlaying() has not been called since: the serial
                    \* number of the Play that was being performed at the
                    \* latest such call (0 when none was)

vars == << flexFXList, spliceMode, playList, playerPlaying, playerActive,
           playerStopped, workers, callers, evs, step, nextSeq, taken,
           stopAt >>

\* the fibers that call the blocks: the main program and one event handler
Callers == { 1, 2 }

\* enum PLAYER, raised under FLEXFX_ACTIVITY_ID.  <seq> tells which Play a
\* STARTING or FINISHED belongs to (0 for ALLPLAYED); no code reads it.
Event(name, seq) == [ ev |-> name, seq |-> seq ]
Raised(name) == \E i \in 1..Len(evs) : evs[i].ev = name
RaisedFor(name, seq) == \E i \in 1..Len(evs) : evs[i] = Event(name, seq)

\* a Play: its compiled parts.  <seq> numbers the Plays in the order they
\* were appended; no code reads it.
Play(seq, parts) == [ seq |-> seq, parts |-> parts ]

Idle == [ st |-> "idle", op |-> "", ev |-> "", tgt |-> 0 ]
\* control.waitForEvent(FLEXFX_ACTIVITY_ID, ev), called inside block <op>.
\* <tgt> is the serial number of the Play the block is about (the one being
\* performed for awaitPlayFinish, the one appended for playFlexFX, else 0);
\* no code reads it.
Waiting(op, ev, tgt) == [ st |-> "blocked", op |-> op, ev |-> ev, tgt |-> tgt ]

\* control.raiseEvent: every fiber waiting for one of the events becomes
\* runnable (it runs again in its own later step, Return)
Wake(cs, raised) ==
    [ c \in Callers |->
        IF cs[c].st = "blocked" /\ \E i \in 1..Len(raised) : raised[i].ev = cs[c].ev
        THEN [ cs[c] EXCEPT !.st = "ready" ]
        ELSE cs[c] ]

Called(op, c, ret) == [ kind |-> "call", op |-> op, c |-> c, ret |-> ret ]
Returned(op, c) == [ kind |-> "return", op |-> op, c |-> c, ret |-> 0 ]
Played == [ kind |-> "player", op |-> "player", c |-> 0, ret |-> 0 ]

\* the serial number of the Play being performed (0 when none is)
CurrentSeq ==
    IF \E i \in 1..Len(workers) : workers[i].pc = "sound"
    THEN workers[CHOOSE i \in 1..Len(workers) : workers[i].pc = "sound"].play.seq
    ELSE 0

\* ------------------------------------------------------------ the scheduler
\* a fiber started by control.inBackground(() => player()) that has not run yet
NewWorker == [ pc |-> "start", play |-> Play(0, << >>), sound |-> Tagged("", 0) ]

\* faulty variant: activatePlayer() without the test of playerActive
activatePlayerAgain(active, stopped, ws) ==
    IF ~stopped
    THEN [ active |-> TRUE, workers |-> Append(ws, NewWorker) ]
    ELSE [ active |-> active, workers |-> ws ]

\* faulty variant: activatePlayer() without the test of playerStopped
activatePlayerStopped(active, stopped, ws) ==
    IF ~active
    THEN [ active |-> TRUE, workers |-> Append(ws, NewWorker) ]
    ELSE [ active |-> active, workers |-> ws ]

\* activatePlayer(): the values of playerActive and of the worker fibers after it
activatePlayer(active, stopped, ws) ==
    IF ~(active \/ stopped)
    THEN [ active |-> TRUE, workers |-> Append(ws, NewWorker) ]
    ELSE [ active |-> active, workers |-> ws ]

\* faulty variant: the new Play put at the head of the play-list
unshift(list, play) == << play >> \o list

\* faulty variant: the new Play appended twice
pushTwice(list, play) == Append(Append(list, play), play)

\* playList.push(play)
push(list, play) == Append(list, play)

\* the input sets of the blocks
Ids == { "siren", "violin", "nosuch" }
PlayArgs == { << 0, 0, 0 >> }
BuiltInChoices == { LAUGH, SIREN }
SilenceArgs == { 1500 }

Init ==
    /\ spliceMode \in SpliceModes
    /\ flexFXList = BuiltInList(spliceMode)
    /\ playList = << >>
    /\ playerPlaying = FALSE
    /\ playerActive = FALSE
    /\ playerStopped = FALSE
    /\ workers = << >>
    /\ callers = [ c \in Callers |-> Idle ]
    /\ evs = << >>
    /\ step = [ kind |-> "init", op |-> "", c |-> 0, ret |-> 0 ]
    /\ nextSeq = 1
    /\ taken = << >>
    /\ stopAt = -1

\* faulty variant: playFlexFX() with the wait for ALLPLAYED outside the test
\* of <target>
PlayFlexFXWaitAnyway(c, id, pitch, volume, duration, background) ==
    LET target == find(flexFXList, id)
        play == Play(nextSeq, compilePlay(flexFXList[target], pitch, volume, duration))
        act == activatePlayer(playerActive, playerStopped, workers)
    IN  /\ callers[c].st = "idle"
        /\ step' = Called("playFlexFX", c, 0)
        /\ evs' = << >>
        /\ IF target # 0
           THEN /\ playList' = push(playList, play)
                /\ nextSeq' = nextSeq + 1
                /\ playerActive' = act.active
                /\ workers' = act.workers
           ELSE UNCHANGED << playList, nextSeq, playerActive, workers >>
        /\ callers' = IF background
                      THEN callers
                      ELSE [ callers EXCEPT ![c] = Waiting("playFlexFX", "ALLPLAYED", nextSeq) ]
        /\ UNCHANGED << flexFXList, spliceMode, playerPlaying, playerStopped, taken, stopAt >>

\* faulty variant: playFlexFX() that keeps the arguments of the performance
\* as the defaults of the FlexFX
PlayFlexFXStoresArgs(c, id, pitch, volume, duration, background) ==
    LET target == find(flexFXList, id)
        play == Play(nextSeq, compilePlay(flexFXList[target], pitch, volume, duration))
        act == activatePlayer(playerActive, playerStopped, workers)
    IN  /\ callers[c].st = "idle"
        /\ step' = Called("playFlexFX", c, 0)
        /\ evs' = << >>
        /\ IF target # 0
           THEN /\ playList' = push(playList, play)
                /\ nextSeq' = nextSeq + 1
                /\ playerActive' = act.active
                /\ workers' = act.workers
                /\ callers' = IF background
                              THEN callers
                              ELSE [ callers EXCEPT ![c] = Waiting("playFlexFX", "ALLPLAYED", nextSeq) ]
                /\ flexFXList' = [ flexFXList EXCEPT ![target] =
                                     setDefaults(@, PickUp(pitch, @.defaultFreq),
                                                 PickUp(volume, @.defaultVol),
                                                 PickUp(duration, @.defaultMs)) ]
           ELSE UNCHANGED << playList, nextSeq, playerActive, workers, callers, flexFXList >>
        /\ UNCHANGED << spliceMode, playerPlaying, playerStopped, taken, stopAt >>

\* playFlexFX(id, pitch, volume, duration, background) called by fiber c
PlayFlexFX(c, id, pitch, volume, duration, background) ==
    LET target == find(flexFXList, id)
        play == Play(nextSeq, compilePlay(flexFXList[target], pitch, volume, duration))
        act == activatePlayer(playerActive, playerStopped, workers)
    IN  /\ callers[c].st = "idle"
        /\ step' = Called("playFlexFX", c, 0)
        /\ evs' = << >>
        /\ IF target # 0
           THEN /\ playList' = push(playList, play)
                /\ nextSeq' = nextSeq + 1
                /\ playerActive' = act.active
                /\ workers' = act.workers
                /\ callers' = IF background
                              THEN callers
                              ELSE [ callers EXCEPT ![c] = Waiting("playFlexFX", "ALLPLAYED", nextSeq) ]
           ELSE UNCHANGED << playList, nextSeq, playerActive, workers, callers >>
        /\ UNCHANGED << flexFXList, spliceMode, playerPlaying, playerStopped, taken, stopAt >>

\* playBuiltInFlexFX(choice, pitch, volume, duration, background) called by
\* fiber c
PlayBuiltInFlexFX(c, choice, pitch, volume, duration, background) ==
    PlayFlexFX(c, builtInId[choice + 1], pitch, volume, duration, background)

\* performSilence(ms) called by fiber c
PerformSilence(c, ms) ==
    LET play == Play(nextSeq, << Tagged("s", ms) >>)
        act == activatePlayer(playerActive, playerStopped, workers)
    IN  /\ callers[c].st = "idle"
        /\ step' = Called("performSilence", c, 0)
        /\ evs' = << >>
        /\ playList' = push(playList, play)
        /\ nextSeq' = nextSeq + 1
        /\ playerActive' = act.active
        /\ workers' = act.workers
        /\ UNCHANGED << flexFXList, spliceMode, playerPlaying, playerStopped, callers, taken, stopAt >>

\* faulty variant: awaitPlayStart() without "playerStopped = false"
AwaitPlayStartNoResume(c) ==
    LET act == activatePlayer(playerActive, playerStopped, workers)
    IN  /\ callers[c].st = "idle"
        /\ step' = Called("awaitPlayStart", c, 0)
        /\ evs' = << >>
        /\ playerActive' = act.active
        /\ workers' = act.workers
        /\ callers' = [ callers EXCEPT ![c] = Waiting("awaitPlayStart", "STARTING", 0) ]
        /\ UNCHANGED << flexFXList, spliceMode, playList, playerPlaying, playerStopped,
                        nextSeq, taken, stopAt >>

\* faulty variant: awaitPlayStart() testing "playList.length > 0"
AwaitPlayStartWhenQueued(c) ==
    LET act == activatePlayer(playerActive, FALSE, workers)
    IN  /\ callers[c].st = "idle"
        /\ step' = Called("awaitPlayStart", c, 0)
        /\ evs' = << >>
        /\ IF Len(playList) > 0
           THEN /\ playerStopped' = FALSE
                /\ playerActive' = act.active
                /\ workers' = act.workers
                /\ callers' = [ callers EXCEPT ![c] = Waiting("awaitPlayStart", "STARTING", 0) ]
           ELSE UNCHANGED << playerStopped, playerActive, workers, callers >>
        /\ UNCHANGED << flexFXList, spliceMode, playList, playerPlaying, nextSeq, taken, stopAt >>

\* awaitPlayStart() called by fiber c
AwaitPlayStart(c) ==
    LET act == activatePlayer(playerActive, FALSE, workers)
    IN  /\ callers[c].st = "idle"
        /\ step' = Called("awaitPlayStart", c, 0)
        /\ evs' = << >>
        /\ IF Len(playList) >= 0
           THEN /\ playerStopped' = FALSE
                /\ playerActive' = act.active
                /\ workers' = act.workers
                /\ callers' = [ callers EXCEPT ![c] = Waiting("awaitPlayStart", "STARTING", 0) ]
           ELSE UNCHANGED << playerStopped, playerActive, workers, callers >>
        /\ UNCHANGED << flexFXList, spliceMode, playList, playerPlaying, nextSeq, taken, stopAt >>

\* faulty variant: awaitPlayFinish() testing playerActive
AwaitPlayFinishWhenActive(c) ==
    /\ callers[c].st = "idle"
    /\ step' = Called("awaitPlayFinish", c, 0)
    /\ evs' = << >>
    /\ callers' = IF playerActive
                  THEN [ callers EXCEPT ![c] = Waiting("awaitPlayFinish", "FINISHED", CurrentSeq) ]
                  ELSE callers
    /\ UNCHANGED << flexFXList, spliceMode, playList, playerPlaying, playerActive,
                    playerStopped, workers, nextSeq, taken, stopAt >>

\* awaitPlayFinish() called by fiber c
AwaitPlayFinish(c) ==
    /\ callers[c].st = "idle"
    /\ step' = Called("awaitPlayFinish", c, 0)
    /\ evs' = << >>
    /\ callers' = IF playerPlaying
                  THEN [ callers EXCEPT ![c] = Waiting("awaitPlayFinish", "FINISHED", CurrentSeq) ]
                  ELSE callers
    /\ UNCHANGED << flexFXList, spliceMode, playList, playerPlaying, playerActive,
                    playerStopped, workers, nextSeq, taken, stopAt >>

\* faulty variant: awaitAllFinished() waiting for PLAYER.FINISHED
AwaitAllFinishedWrongEvent(c) ==
    LET act == activatePlayer(playerActive, FALSE, workers)
    IN  /\ callers[c].st = "idle"
        /\ step' = Called("awaitAllFinished", c, 0)
        /\ evs' = << >>
        /\ playerStopped' = FALSE
        /\ playerActive' = act.active
        /\ workers' = act.workers
        /\ callers' = [ callers EXCEPT ![c] = Waiting("awaitAllFinished", "FINISHED", 0) ]
        /\ UNCHANGED << flexFXList, spliceMode, playList, playerPlaying, nextSeq, taken, stopAt >>

\* awaitAllFinished() called by fiber c
AwaitAllFinished(c) ==
    LET act == activatePlayer(playerActive, FALSE, workers)
    IN  /\ callers[c].st = "idle"
        /\ step' = Called("awaitAllFinished", c, 0)
        /\ evs' = << >>
        /\ IF Len(playList) >= 0
           THEN /\ playerStopped' = FALSE
                /\ playerActive' = act.active
                /\ workers' = act.workers
                /\ callers' = [ callers EXCEPT ![c] = Waiting("awaitAllFinished", "ALLPLAYED", 0) ]
           ELSE UNCHANGED << playerStopped, playerActive, workers, callers >>
        /\ UNCHANGED << flexFXList, spliceMode, playList, playerPlaying, nextSeq, taken, stopAt >>

\* faulty variant: waitingToPlay() that counts the started player() as well
WaitingToPlayAndPlayer(c) ==
    /\ callers[c].st = "idle"
    /\ step' = Called("waitingToPlay", c, Len(playList) + Len(workers))
    /\ evs' = << >>
    /\ UNCHANGED << flexFXList, spliceMode, playList, playerPlaying, playerActive,
                    playerStopped, workers, callers, nextSeq, taken, stopAt >>

\* waitingToPlay() called by fiber c
WaitingToPlay(c) ==
    /\ callers[c].st = "idle"
    /\ step' = Called("waitingToPlay", c, Len(playList))
    /\ evs' = << >>
    /\ UNCHANGED << flexFXList, spliceMode, playList, playerPlaying, playerActive,
                    playerStopped, workers, callers, nextSeq, taken, stopAt >>

\* stopPlaying() called by fiber c
StopPlaying(c) ==
    /\ callers[c].st = "idle"
    /\ step' = Called("stopPlaying", c, 0)
    /\ evs' = << >>
    /\ playerStopped' = TRUE
    /\ stopAt' = CurrentSeq
    /\ UNCHANGED << flexFXList, spliceMode, playList, playerPlaying, playerActive,
                    workers, callers, nextSeq, taken >>

\* faulty variant: startPlaying() without the call of activatePlayer()
StartPlayingNoActivate(c) ==
    /\ callers[c].st = "idle"
    /\ step' = Called("startPlaying", c, 0)
    /\ evs' = << >>
    /\ playerStopped' = FALSE
    /\ stopAt' = -1
    /\ UNCHANGED << flexFXList, spliceMode, playList, playerPlaying, playerActive,
                    workers, callers, nextSeq, taken >>

\* startPlaying() called by fiber c
StartPlaying(c) ==
    LET act == activatePlayer(playerActive, FALSE, workers)
    IN  /\ callers[c].st = "idle"
        /\ step' = Called("startPlaying", c, 0)
        /\ evs' = << >>
        /\ playerStopped' = FALSE
        /\ playerActive' = act.active
        /\ workers' = act.workers
        /\ stopAt' = -1
        /\ UNCHANGED << flexFXList, spliceMode, playList, playerPlaying, callers, nextSeq, taken >>

\* faulty variant: deletePlaylist() that leaves the oldest waiting Play
DeletePlaylistButHead(c) ==
    /\ callers[c].st = "idle"
    /\ step' = Called("deletePlaylist", c, 0)
    /\ evs' = << >>
    /\ playList' = IF playList = << >> THEN << >> ELSE << Head(playList) >>
    /\ UNCHANGED << flexFXList, spliceMode, playerPlaying, playerActive, playerStopped,
                    workers, callers, nextSeq, taken, stopAt >>

\* faulty variant: deletePlaylist() that resumes playback as well
DeletePlaylistAndResume(c) ==
    /\ callers[c].st = "idle"
    /\ step' = Called("deletePlaylist", c, 0)
    /\ evs' = << >>
    /\ playList' = << >>
    /\ playerStopped' = FALSE
    /\ UNCHANGED << flexFXList, spliceMode, playerPlaying, playerActive,
                    workers, callers, nextSeq, taken, stopAt >>

\* deletePlaylist() called by fiber c
DeletePlaylist(c) ==
    /\ callers[c].st = "idle"
    /\ step' = Called("deletePlaylist", c, 0)
    /\ evs' = << >>
    /\ playList' = << >>
    /\ UNCHANGED << flexFXList, spliceMode, playerPlaying, playerActive, playerStopped,
                    workers, callers, nextSeq, taken, stopAt >>

\* control.waitForEvent returns in fiber c, and with it the block that called it
Return(c) ==
    /\ callers[c].st = "ready"
    /\ step' = Returned(callers[c].op, c)
    /\ evs' = << >>
    /\ callers' = [ callers EXCEPT ![c] = Idle ]
    /\ UNCHANGED << flexFXList, spliceMode, playList, playerPlaying, playerActive,
                    playerStopped, workers, nextSeq, taken, stopAt >>

\* faulty variant: the outer while loop of player() without the test of playerStopped
LoopTestNoStop == Len(playList) > 0

\* player(): the test of its outer while loop
LoopTest == Len(playList) > 0 /\ ~playerStopped

\* faulty variant: ALLPLAYED raised only when playback is not stopped
ExitEventsUnlessStopped(raised) ==
    IF Len(playList) = 0 /\ ~playerStopped
    THEN Append(raised, Event("ALLPLAYED", 0))
    ELSE raised

\* faulty variant: ALLPLAYED raised whenever player() ends
ExitEventsAlways(raised) == Append(raised, Event("ALLPLAYED", 0))

\* player(), after its outer while loop: the events raised by this step once
\* the loop is left
ExitEvents(raised) ==
    IF Len(playList) = 0
    THEN Append(raised, Event("ALLPLAYED", 0))
    ELSE raised

\* faulty variant: no Play is taken for a queued pause
IsQueuedPauseNever(play) == FALSE

\* player(): play.parts[0].charAt(0) == 's'
IsQueuedPause(play) == Head(play.parts).tag = "s"

\* player(), from the test of its outer while loop to the next point where
\* it blocks (a queued pause, or the first part of the next Play) or to its
\* end.  <w> is the fiber, <raised> the events it has raised in this step,
\* <playing> the value playerPlaying has when the loop is tested.
PlayerLoop(w, raised, playing) ==
    IF LoopTest
    THEN LET play == Head(playList)
             sound == Head(play.parts)
             rest == Play(play.seq, Tail(play.parts))
         IN  /\ playList' = Tail(playList)
             /\ taken' = Append(taken, play.seq)
             /\ IF IsQueuedPause(play)
                THEN /\ workers' = [ workers EXCEPT ![w] = [ pc |-> "pause", play |-> rest, sound |-> sound ] ]
                     /\ playerPlaying' = playing
                     /\ evs' = raised
                ELSE /\ workers' = [ workers EXCEPT ![w] = [ pc |-> "sound", play |-> rest, sound |-> sound ] ]
                     /\ playerPlaying' = TRUE
                     /\ evs' = Append(raised, Event("STARTING", play.seq))
             /\ playerActive' = playerActive
    ELSE /\ evs' = ExitEvents(raised)
         /\ taken' = taken
         /\ playerActive' = FALSE
         /\ workers' = RemoveAt(workers, w)
         /\ playerPlaying' = playing
         /\ playList' = playList

\* the fiber runs player() for the first time
PlayerStart(w) ==
    /\ workers[w].pc = "start"
    /\ PlayerLoop(w, << >>, playerPlaying)
    /\ step' = Played
    /\ callers' = Wake(callers, evs')
    /\ UNCHANGED << flexFXList, spliceMode, playerStopped, nextSeq, stopAt >>

\* the pause() of a queued pause is over
PlayerPauseDone(w) ==
    /\ workers[w].pc = "pause"
    /\ PlayerLoop(w, << >>, playerPlaying)
    /\ step' = Played
    /\ callers' = Wake(callers, evs')
    /\ UNCHANGED << flexFXList, spliceMode, playerStopped, nextSeq, stopAt >>

\* one part of the Play has been played (music.playSoundEffect until done,
\* or the pause() of a silent gap), and more parts follow
PlayerNextPart(w) ==
    /\ workers[w].pc = "sound"
    /\ Len(workers[w].play.parts) > 0
    /\ workers' = [ workers EXCEPT ![w] =
                      [ pc |-> "sound",
                        play |-> Play(workers[w].play.seq, Tail(workers[w].play.parts)),
                        sound |-> Head(workers[w].play.parts) ] ]
    /\ step' = Played
    /\ evs' = << >>
    /\ UNCHANGED << flexFXList, spliceMode, playList, playerPlaying, playerActive,
                    playerStopped, callers, nextSeq, taken, stopAt >>

\* faulty variant: the last part of the Play has been played, FINISHED is
\* not raised
PlayerFinishedSilently(w) ==
    /\ workers[w].pc = "sound"
    /\ Len(workers[w].play.parts) = 0
    /\ PlayerLoop(w, << >>, FALSE)
    /\ step' = Played
    /\ callers' = Wake(callers, evs')
    /\ UNCHANGED << flexFXList, spliceMode, playerStopped, nextSeq, stopAt >>

\* the last part of the Play has been played
PlayerFinished(w) ==
    /\ workers[w].pc = "sound"
    /\ Len(workers[w].play.parts) = 0
    /\ PlayerLoop(w, << Event("FINISHED", workers[w].play.seq) >>, FALSE)
    /\ step' = Played
    /\ callers' = Wake(callers, evs')
    /\ UNCHANGED << flexFXList, spliceMode, playerStopped, nextSeq, stopAt >>

\* no more than <n> Plays are appended in one run
Room(n) == nextSeq <= n

\* fiber c calls one of the blocks of the play-list, or returns from one
CallerOps(c) ==
    \/ \E id \in Ids, a \in PlayArgs, background \in BOOLEAN :
           Room(MaxPlays) /\ PlayFlexFX(c, id, a[1], a[2], a[3], background)
    \/ \E choice \in BuiltInChoices, a \in PlayArgs, background \in BOOLEAN :
           Room(MaxPlays) /\ PlayBuiltInFlexFX(c, choice, a[1], a[2], a[3], background)
    \/ \E ms \in SilenceArgs : Room(MaxPlays) /\ PerformSilence(c, ms)
    \/ AwaitPlayStart(c)
    \/ AwaitPlayFinish(c)
    \/ AwaitAllFinished(c)
    \/ WaitingToPlay(c)
    \/ StopPlaying(c)
    \/ StartPlaying(c)
    \/ DeletePlaylist(c)
    \/ Return(c)

CallerStep == \E c \in Callers : CallerOps(c)

WorkerStep ==
    \E w \in 1..Len(workers) :
        \/ PlayerStart(w)
        \/ PlayerPauseDone(w)
        \/ PlayerNextPart(w)
        \/ PlayerFinished(w)

Next == CallerStep \/ WorkerStep

Spec == Init /\ [][Next]_vars

\* the scheduler runs every runnable fiber, and every pause and every sound
\* comes to an end
Fairness ==
    /\ WF_vars(WorkerStep)
    /\ \A c \in Callers : WF_vars(Return(c))

FairSpec == Spec /\ Fairness

\* ------------------------------------------------------------------ claims
\* the step just taken is a call of block <op>
JustCalled(op) == step.kind = "call" /\ step.op = op
\* the step taken raises event <name> for Play <seq>
Raises(name, seq) == \E i \in 1..Len(evs') : evs'[i] = Event(name, seq)
\* the step taken is player() taking a Play off the play-list
Dequeues == step'.kind = "player" /\ taken' # taken

\* C1: in every reachable state at most one fiber runs player(): activatePlayer
\* never starts a second one while one started earlier has not yet ended.
C1_OneWorker == Len(workers) <= 1

\* C1 witness: startPlaying() has just called activatePlayer while the fiber
\* started earlier is in the middle of a Play.
C1_Witness ==
    /\ JustCalled("startPlaying")
    /\ Len(workers) = 1
    /\ workers[1].pc = "sound"

\* C2: Plays are played in the order they were appended: the Plays wait on the
\* play-list in the order of their serial numbers, player() always takes the
\* oldest one, it takes a Play only when it holds no unfinished Play, and so
\* the Plays taken so far were taken in the order they were appended.
C2_Fifo ==
    /\ [](\A i, j \in 1..Len(playList) : i < j => playList[i].seq < playList[j].seq)
    /\ [](\A i, j \in 1..Len(taken) : i < j => taken[i] < taken[j])
    /\ [][ Dequeues =>
             /\ taken' = Append(taken, Head(playList).seq)
             /\ playList' = Tail(playList)
             /\ \A w \in 1..Len(workers) : workers[w].play.parts = << >> ]_vars

\* C2 witness: the second Play appended is being played after the first one,
\* and playback was paused and resumed in between.
C2_Witness ==
    /\ taken = << 1, 2 >>
    /\ CurrentSeq = 2
    /\ JustCalled("startPlaying")

\* The scenario of C3: fiber 1 appends three Plays in the background while
\* playback is not paused, then calls awaitAllFinished() and, once it has
\* returned, waitingToPlay().  player() runs in between as it is scheduled.
NextC3 ==
    \/ \E id \in Ids, a \in PlayArgs :
           /\ Room(3)
           /\ find(flexFXList, id) # 0
           /\ PlayFlexFX(1, id, a[1], a[2], a[3], TRUE)
    \/ /\ ~Room(3)
       /\ JustCalled("playFlexFX") \/ step.kind = "player"
       /\ AwaitAllFinished(1)
    \/ WorkerStep
    \/ Return(1)
    \/ /\ step = Returned("awaitAllFinished", 1)
       /\ WaitingToPlay(1)

SpecC3 == Init /\ [][NextC3]_vars /\ WF_vars(WorkerStep) /\ WF_vars(Return(1))

\* C3: after three Plays were appended in the background, awaitAllFinished()
\* is not woken and does not return before player() has taken all three in
\* the order they were appended and finished them; it does return; and
\* waitingToPlay() called right after it gives 0.
C3_AwaitAllFinished ==
    /\ [](callers[1].st = "ready" \/ step = Returned("awaitAllFinished", 1)
            => taken = << 1, 2, 3 >> /\ workers = << >> /\ Len(playList) = 0)
    /\ [](JustCalled("waitingToPlay") => step.ret = 0)
    /\ (callers[1].st = "blocked") ~> (step = Returned("awaitAllFinished", 1))

\* C3 witness: awaitAllFinished() has returned after the three Plays and
\* waitingToPlay() has answered.
C3_Witness ==
    /\ step = Called("waitingToPlay", 1, 0)
    /\ taken = << 1, 2, 3 >>

\* <a> is the beginning of <b>
IsPrefix(a, b) == Len(a) <= Len(b) /\ \A i \in 1..Len(a) : a[i] = b[i]

\* C4 as stated: once stopPlaying() was called in the middle of a Play, that
\* Play is played to its end and no further Play is taken off the play-list
\* until startPlaying() is called.
C4_UntilStartPlaying ==
    [][ /\ \A w \in 1..Len(workers) :
              workers[w].pc = "sound" =>
                  \/ Raises("FINISHED", workers[w].play.seq)
                  \/ /\ w <= Len(workers')
                     /\ workers'[w].pc = "sound"
                     /\ workers'[w].play.seq = workers[w].play.seq
        /\ Dequeues => ~(stopAt > 0) ]_vars

\* C4 as amended: a Play being performed is never cut short, whatever is
\* called meanwhile: player() goes on to its next part, and leaves it only
\* after its last part, raising FINISHED for it.  While playerStopped is set
\* no Play is taken off the play-list, and the play-list changes only by Plays
\* being appended or by deletePlaylist().  playerStopped is cleared by
\* startPlaying(), and by awaitPlayStart() and awaitAllFinished() as well.
C4_UntilResumed ==
    [][ /\ \A w \in 1..Len(workers) :
              workers[w].pc = "sound" =>
                  \/ /\ w <= Len(workers')
                     /\ workers'[w] = workers[w]
                  \/ /\ workers[w].play.parts # << >>
                     /\ w <= Len(workers')
                     /\ workers'[w] = [ pc |-> "sound",
                                        play |-> Play(workers[w].play.seq, Tail(workers[w].play.parts)),
                                        sound |-> Head(workers[w].play.parts) ]
                  \/ /\ workers[w].play.parts = << >>
                     /\ Raises("FINISHED", workers[w].play.seq)
        /\ Dequeues => ~playerStopped
        /\ playerStopped =>
              \/ IsPrefix(playList, playList')
              \/ JustCalled("deletePlaylist")' /\ playList' = << >>
        /\ playerStopped /\ ~playerStopped' =>
              \/ JustCalled("startPlaying")'
              \/ JustCalled("awaitPlayStart")'
              \/ JustCalled("awaitAllFinished")' ]_vars

\* C4 witness: stopPlaying() was called while Play 1 was being performed;
\* Play 1 has just been finished and Play 2 is still on the play-list, with
\* no player() fiber left.
C4_Witness ==
    /\ stopAt = 1
    /\ playerStopped
    /\ RaisedFor("FINISHED", 1)
    /\ workers = << >>
    /\ Len(playList) = 1
    /\ playList[1].seq = 2

IdsC6 == { "miaow", "horn", "siren", "violin" }
PlayArgsC6 == { << 0, 0, 0 >>, << 800, 200, 400 >> }

\* The scenario of C6: on the idle player, fiber 1 calls stopPlaying(), appends
\* one Play in the background, calls waitingToPlay() and then
\* awaitPlayStart().  Fiber 2 may call startPlaying() once fiber 1 is
\* inside awaitPlayStart(), or never.
NextC6 ==
    \/ /\ step.kind = "init"
       /\ StopPlaying(1)
    \/ \E id \in IdsC6, a \in PlayArgsC6 :
           /\ JustCalled("stopPlaying")
           /\ find(flexFXList, id) # 0
           /\ PlayFlexFX(1, id, a[1], a[2], a[3], TRUE)
    \/ /\ JustCalled("playFlexFX")
       /\ WaitingToPlay(1)
    \/ /\ JustCalled("waitingToPlay")
       /\ AwaitPlayStart(1)
    \/ /\ callers[1].op = "awaitPlayStart"
       /\ StartPlaying(2)
    \/ WorkerStep
    \/ Return(1)

SpecC6 == Init /\ [][NextC6]_vars /\ WF_vars(WorkerStep) /\ WF_vars(Return(1))

\* C6 as stated: after stopPlaying() and one Play appended, waitingToPlay()
\* gives 1, and awaitPlayStart() returns only once startPlaying() has been
\* called.
C6_UntilStartPlaying ==
    /\ JustCalled("waitingToPlay") => step.ret = 1
    /\ step = Returned("awaitPlayStart", 1) => stopAt = -1

\* C6 as amended: after stopPlaying() and one Play X appended, waitingToPlay()
\* gives 1; awaitPlayStart() itself clears playerStopped and starts player();
\* it is not woken before STARTING is raised for X, and it does return,
\* whether startPlaying() is called or not.
C6_ResumesItself ==
    /\ [](JustCalled("waitingToPlay") => step.ret = 1)
    /\ [](JustCalled("awaitPlayStart") =>
             ~playerStopped /\ playerActive /\ workers = << NewWorker >>)
    /\ [][ callers[1].st = "blocked" /\ callers'[1].st # "blocked"
             => Raises("STARTING", 1) ]_vars
    /\ (callers[1].st = "blocked") ~> (step = Returned("awaitPlayStart", 1))

\* C6 witness: awaitPlayStart() has returned and startPlaying() was never
\* called after stopPlaying().
C6_Witness ==
    /\ step = Returned("awaitPlayStart", 1)
    /\ stopAt = 0
    /\ taken = << 1 >>

C8_ReturnsAtOnceWhenEmpty ==
    [][ JustCalled("awaitPlayStart")' =>
          IF playList = << >>
          THEN callers'[step'.c].st = "idle"
          ELSE callers'[step'.c] = Waiting("awaitPlayStart", "STARTING", 0) ]_vars

\* fiber c waits in awaitAllFinished() while the play-list is empty, nothing
\* is being played and the player is active
C9_Waiting(c) ==
    /\ callers[c] = Waiting("awaitAllFinished", "ALLPLAYED", 0)
    /\ playList = << >>
    /\ ~playerPlaying
    /\ playerActive

\* The runs of C9: fiber 1 calls awaitAllFinished() whenever it is idle, at
\* any moment; fiber 2 appends Plays and queued pauses, pauses and resumes
\* playback and clears the play-list, in any order and at any moment.
NextC9 ==
    \/ AwaitAllFinished(1)
    \/ Return(1)
    \/ \E id \in Ids, a \in PlayArgs :
           Room(MaxPlays) /\ PlayFlexFX(2, id, a[1], a[2], a[3], TRUE)
    \/ \E ms \in SilenceArgs : Room(MaxPlays) /\ PerformSilence(2, ms)
    \/ StopPlaying(2)
    \/ StartPlaying(2)
    \/ DeletePlaylist(2)
    \/ WorkerStep

SpecC9 == Init /\ [][NextC9]_vars /\ WF_vars(WorkerStep) /\ WF_vars(Return(1))

\* C9: awaitAllFinished() called when the play-list is empty and nothing is
\* being played leaves its caller waiting with the player active, and from
\* there the caller returns, unless a further Play is appended first.
C9_ReturnsWhenEmpty ==
    /\ [][ step' = Called("awaitAllFinished", 1, 0) /\ playList = << >> /\ ~playerPlaying
             => /\ callers'[1] = Waiting("awaitAllFinished", "ALLPLAYED", 0)
                /\ playList' = << >>
                /\ ~playerPlaying'
                /\ playerActive' ]_vars
    /\ C9_Waiting(1) ~> (callers[1].st = "idle" \/ playList # << >>)

\* C9 witness: awaitAllFinished() has returned although playback was paused
\* after it was called, and no Play was ever appended.
C9_Witness ==
    /\ step = Returned("awaitAllFinished", 1)
    /\ playerStopped
    /\ nextSeq = 1

\* C10: awaitPlayFinish() called while playerPlaying is false returns at once
\* and changes nothing; called while playerPlaying is true it waits, and it
\* is woken only by the FINISHED event of the Play that was being performed
\* when it was called.
C10_AwaitPlayFinish ==
    [][ /\ JustCalled("awaitPlayFinish")' /\ ~playerPlaying =>
              /\ callers' = callers
              /\ UNCHANGED << flexFXList, playList, playerPlaying, playerActive,
                              playerStopped, workers >>
        /\ JustCalled("awaitPlayFinish")' /\ playerPlaying =>
              /\ CurrentSeq > 0
              /\ callers'[step'.c] = Waiting("awaitPlayFinish", "FINISHED", CurrentSeq)
        /\ \A c \in Callers :
              /\ callers[c].op = "awaitPlayFinish"
              /\ callers[c].st = "blocked"
              /\ callers'[c].st # "blocked"
              => Raises("FINISHED", callers[c].tgt) ]_vars

\* C10 witness: awaitPlayFinish() was called while player() sits in a queued
\* pause, and has returned at once.
C10_Witness ==
    /\ JustCalled("awaitPlayFinish")
    /\ callers[step.c].st = "idle"
    /\ workers # << >>
    /\ workers[1].pc = "pause"
    /\ playerActive
    /\ ~playerPlaying

\* Play <s> has been taken off the play-list by player()
WasTaken(s) == \E i \in 1..Len(taken) : taken[i] = s

\* The runs of C11: fiber 1 appends up to three Plays and queued pauses in
\* the background and calls deletePlaylist() at any moment, and
\* waitingToPlay() right after it; fiber 2 pauses and resumes playback at any
\* moment; player() runs as it is scheduled, and every sound and pause ends.
NextC11 ==
    \/ \E id \in Ids, a \in PlayArgs :
           Room(3) /\ PlayFlexFX(1, id, a[1], a[2], a[3], TRUE)
    \/ \E ms \in SilenceArgs : Room(3) /\ PerformSilence(1, ms)
    \/ DeletePlaylist(1)
    \/ /\ JustCalled("deletePlaylist")
       /\ WaitingToPlay(1)
    \/ StopPlaying(2)
    \/ StartPlaying(2)
    \/ WorkerStep

SpecC11 == Init /\ [][NextC11]_vars /\ WF_vars(WorkerStep)

\* C11: deletePlaylist() empties the play-list and touches nothing else:
\* waitingToPlay() called right after it gives 0, and a Play that was appended
\* and not yet taken by player() when deletePlaylist() was called is never
\* taken afterwards.  The Play that player() is performing is unaffected: the
\* fiber and its remaining parts are as before the call, the parts are then
\* played one by one in their order, and FINISHED is raised for that Play.
C11_DeletePlaylist ==
    /\ [][ JustCalled("deletePlaylist")' =>
             /\ playList' = << >>
             /\ workers' = workers
             /\ UNCHANGED << playerPlaying, playerActive, playerStopped, taken, callers >>
             /\ evs' = << >> ]_vars
    /\ [][ JustCalled("deletePlaylist") /\ JustCalled("waitingToPlay")' => step'.ret = 0 ]_vars
    /\ \A s \in 1..3 :
          [](JustCalled("deletePlaylist") /\ s < nextSeq /\ ~WasTaken(s) => [](~WasTaken(s)))
    /\ [][ \A w \in 1..Len(workers) :
              workers[w].pc = "sound" /\ workers' # workers =>
                 IF workers[w].play.parts # << >>
                 THEN workers' = [ workers EXCEPT ![w] =
                                     [ pc |-> "sound",
                                       play |-> Play(workers[w].play.seq, Tail(workers[w].play.parts)),
                                       sound |-> Head(workers[w].play.parts) ] ]
                 ELSE Raises("FINISHED", workers[w].play.seq) ]_vars
    /\ \A s \in 1..3 :
          [](JustCalled("deletePlaylist") /\ CurrentSeq = s => <>RaisedFor("FINISHED", s))

\* C11 witness: deletePlaylist() was called while Play 1 was being performed
\* with parts still to play and Plays 2 and 3 were waiting; waitingToPlay()
\* has answered 0 and Play 1 is still being performed.
C11_Witness ==
    /\ step = Called("waitingToPlay", 1, 0)
    /\ nextSeq = 4
    /\ taken = << 1 >>
    /\ CurrentSeq = 1
    /\ workers[1].play.parts # << >>
    /\ playList = << >>

\* C12: playFlexFX, or playBuiltInFlexFX, called with an id that no FlexFX of
\* the registry carries changes nothing, with background set or not: the
\* play-list, the registry and the three flags are as before, no player()
\* fiber is started, no event is raised, and the caller is not made to wait.
C12_UnknownIdNoOp ==
    [][ JustCalled("playFlexFX")' =>
        \A c \in Callers, a \in PlayArgs, background \in BOOLEAN :
          /\ \A id \in Ids :
                find(flexFXList, id) = 0 /\ PlayFlexFX(c, id, a[1], a[2], a[3], background) =>
                    /\ UNCHANGED << playList, flexFXList, playerActive, playerPlaying,
                                    playerStopped, workers, callers, nextSeq, taken >>
                    /\ evs' = << >>
                    /\ callers'[c].st = "idle"
          /\ \A choice \in BuiltInChoices :
                /\ find(flexFXList, builtInId[choice + 1]) = 0
                /\ PlayBuiltInFlexFX(c, choice, a[1], a[2], a[3], background)
                => /\ UNCHANGED << playList, flexFXList, playerActive, playerPlaying,
                                   playerStopped, workers, callers, nextSeq, taken >>
                   /\ evs' = << >>
                   /\ callers'[c].st = "idle" ]_vars

\* C12 witness: playFlexFX has just been called on the idle player and no
\* Play has ever been appended, so the id was unknown; the caller is idle.
C12_Witness ==
    /\ JustCalled("playFlexFX")
    /\ nextSeq = 1
    /\ playList = << >>
    /\ workers = << >>
    /\ ~playerStopped
    /\ callers[step.c].st = "idle"

\* Play <s> has been performed to its end: player() took it and holds it no
\* more (it lets go of a Play only after its last part, raising FINISHED)
Finished(s) == WasTaken(s) /\ \A w \in 1..Len(workers) : workers[w].play.seq # s

\* the same in the state after the step
FinishedAfter(s) ==
    /\ \E i \in 1..Len(taken') : taken'[i] = s
    /\ \A w \in 1..Len(workers') : workers'[w].play.seq # s

\* C13 as stated: playFlexFX called in the foreground with a known id is
\* woken only by a step that raises ALLPLAYED on the empty play-list, and
\* by then the Play it appended has been performed to its end.
C13_AfterOwnPlay ==
    [][ \A c \in Callers :
          /\ callers[c].op = "playFlexFX"
          /\ callers[c].st = "blocked"
          /\ callers'[c].st # "blocked"
          => /\ Raises("ALLPLAYED", 0)
             /\ playList' = << >>
             /\ FinishedAfter(callers[c].tgt) ]_vars

\* C13 as amended: playFlexFX called in the foreground with a known id is
\* woken only by a step of player() that raises ALLPLAYED on the empty
\* play-list with no Play in progress; by then the Play it appended has been
\* performed to its end, unless it was removed from the play-list untaken.
\* A Play leaves the play-list untaken only by deletePlaylist().
C13_UnlessDeleted ==
    [][ /\ \A c \in Callers :
              /\ callers[c].op = "playFlexFX"
              /\ callers[c].st = "blocked"
              /\ callers'[c].st # "blocked"
              => /\ callers[c].tgt > 0
                 /\ Raises("ALLPLAYED", 0)
                 /\ step' = Played
                 /\ playList' = << >>
                 /\ workers' = << >>
                 /\ \/ FinishedAfter(callers[c].tgt)
                    \/ \A i \in 1..Len(taken') : taken'[i] # callers[c].tgt
        /\ (\E i \in 1..Len(playList) :
               /\ \A j \in 1..Len(playList') : playList'[j].seq # playList[i].seq
               /\ \A j \in 1..Len(taken') : taken'[j] # playList[i].seq)
           => JustCalled("deletePlaylist")' ]_vars

\* C13 witness: fiber 1 has returned from playFlexFX after its Play, the
\* second one appended, was performed to its end behind the first.
C13_Witness ==
    /\ step = Returned("playFlexFX", 1)
    /\ taken = << 1, 2 >>
    /\ workers = << >>
    /\ playList = << >>

\* fiber c appends a Play in this step: playFlexFX with a known id in the
\* background, or performSilence
Enqueues(c) ==
    \/ \E id \in Ids, a \in PlayArgs :
          find(flexFXList, id) # 0 /\ PlayFlexFX(c, id, a[1], a[2], a[3], TRUE)
    \/ \E ms \in SilenceArgs : PerformSilence(c, ms)

\* C14: an enqueue is visible at once.  The step in which a fiber calls
\* playFlexFX (known id, background) or performSilence leaves the play-list
\* one Play longer, the new Play last, and player() takes nothing in it: the
\* fiber it may start has not run yet.  waitingToPlay() answers the length of
\* the play-list as it is.  So waitingToPlay() called by the same fiber in
\* the steps right before and right after the enqueue differ by exactly one.
C14_EnqueueVisible ==
    /\ [][ JustCalled("waitingToPlay")' =>
             /\ step'.ret = Len(playList)
             /\ UNCHANGED << playList, workers, taken >>
             /\ JustCalled("playFlexFX") \/ JustCalled("performSilence") =>
                    step'.ret = Len(playList) ]_vars
    /\ [][ JustCalled("playFlexFX")' \/ JustCalled("performSilence")' =>
             \A c \in Callers :
                Enqueues(c) =>
                   /\ Len(playList') = Len(playList) + 1
                   /\ IsPrefix(playList, playList')
                   /\ playList'[Len(playList')].seq = nextSeq
                   /\ taken' = taken
                   /\ \A w \in 1..Len(workers') :
                         w > Len(workers) => workers'[w] = NewWorker
                   /\ JustCalled("waitingToPlay") /\ step.c = c =>
                         Len(playList') = step.ret + 1 ]_vars

\* C14 witness: two Plays were appended on the idle player and the fiber
\* started for them has not run yet; waitingToPlay() answers 2.
C14_Witness ==
    /\ JustCalled("waitingToPlay")
    /\ step.ret = 2
    /\ nextSeq = 3
    /\ taken = << >>
    /\ workers = << NewWorker >>
    /\ ~playerStopped

\* ------------------------------------------------------ the registry blocks
\* the input sets of the create...FlexFX blocks: the id (one of them the id
\* of a built-in FlexFX), the default pitch, which tells two FlexFX of the
\* same id apart, and the <builtIn> argument
IdsReg == { "", "miaow", "boing" }
PitchesReg == { 440, 880 }
BuiltInsReg == { UserDefined, MIAOW }
\* the time percentages (of part A, and of part B or the gap)
TimesReg == { << 30, 40 >> }

\* createFlexFX(id, ..., endPitchPercent, endVolPercent, pitch, volume,
\* duration, builtIn) called by fiber c
CreateFlexFX(c, id, endPitchPercent, endVolPercent, pitch, builtIn) ==
    /\ callers[c].st = "idle"
    /\ step' = Called("createFlexFX", c, 0)
    /\ evs' = << >>
    /\ flexFXList' = createFlexFX(flexFXList, spliceMode, id, 100, 100,
                                  "SINE", "FAST", "NONE", endPitchPercent, endVolPercent,
                                  pitch, 200, 800, builtIn)
    /\ UNCHANGED << spliceMode, playList, playerPlaying, playerActive, playerStopped,
                    workers, callers, nextSeq, taken, stopAt >>

\* create2PartFlexFX(id, ..., timePercentA, pitch, volume, duration, builtIn)
\* called by fiber c
Create2PartFlexFX(c, id, timePercentA, pitch, builtIn) ==
    /\ callers[c].st = "idle"
    /\ step' = Called("create2PartFlexFX", c, 0)
    /\ evs' = << >>
    /\ flexFXList' = create2PartFlexFX(flexFXList, spliceMode, id, 100, 100,
                                       "SINE", "FAST", "NONE", 50, 50,
                                       "SINE", "SLOW", "NONE", 25, 25, timePercentA,
                                       pitch, 200, 800, builtIn)
    /\ UNCHANGED << spliceMode, playList, playerPlaying, playerActive, playerStopped,
                    workers, callers, nextSeq, taken, stopAt >>

\* create3PartFlexFX(id, ..., timePercentA, timePercentB, pitch, volume,
\* duration, builtIn) called by fiber c
Create3PartFlexFX(c, id, timePercentA, timePercentB, pitch, builtIn) ==
    /\ callers[c].st = "idle"
    /\ step' = Called("create3PartFlexFX", c, 0)
    /\ evs' = << >>
    /\ flexFXList' = create3PartFlexFX(flexFXList, spliceMode, id, 100, 100,
                                       "SINE", "FAST", "NONE", 50, 50,
                                       "SINE", "SLOW", "NONE", 25, 25,
                                       "SINE", "SLOW", "NONE", 10, 10,
                                       timePercentA, timePercentB,
                                       pitch, 200, 800, builtIn)
    /\ UNCHANGED << spliceMode, playList, playerPlaying, playerActive, playerStopped,
                    workers, callers, nextSeq, taken, stopAt >>

\* createDoubleFlexFX(id, ..., timePercentA, timeGapPercent, pitch, volume,
\* duration, builtIn) called by fiber c
CreateDoubleFlexFX(c, id, timePercentA, timeGapPercent, pitch, builtIn) ==
    /\ callers[c].st = "idle"
    /\ step' = Called("createDoubleFlexFX", c, 0)
    /\ evs' = << >>
    /\ flexFXList' = createDoubleFlexFX(flexFXList, spliceMode, id, 100, 100,
                                        "SINE", "FAST", "NONE", 50, 50,
                                        75, 75, "SINE", "SLOW", "NONE", 10, 10,
                                        timePercentA, timeGapPercent,
                                        pitch, 200, 800, builtIn)
    /\ UNCHANGED << spliceMode, playList, playerPlaying, playerActive, playerStopped,
                    workers, callers, nextSeq, taken, stopAt >>

\* fiber c stores a FlexFX with one of the four blocks
Stores(c, id, pitch, builtIn) ==
    \/ CreateFlexFX(c, id, 50, 50, pitch, builtIn)
    \/ \E t \in TimesReg :
          \/ Create2PartFlexFX(c, id, t[1], pitch, builtIn)
          \/ Create3PartFlexFX(c, id, t[1], t[2], pitch, builtIn)
          \/ CreateDoubleFlexFX(c, id, t[1], t[2], pitch, builtIn)

\* The runs on the registry: after the module's initialisation fiber 1 calls
\* the four create blocks in any order, with any of the ids and for the user
\* or for a built-in slot.
NextReg ==
    \E id \in IdsReg, pitch \in PitchesReg, builtIn \in BuiltInsReg :
        /\ Len(flexFXList) < MaxRegistry
        /\ \/ CreateFlexFX(1, id, 50, 50, pitch, builtIn)
           \/ \E t \in TimesReg :
                 \/ Create2PartFlexFX(1, id, t[1], pitch, builtIn)
                 \/ Create3PartFlexFX(1, id, t[1], t[2], pitch, builtIn)
                 \/ CreateDoubleFlexFX(1, id, t[1], t[2], pitch, builtIn)

SpecReg == Init /\ [][NextReg]_vars

\* how many FlexFX of <list> carry <id>
CountId(list, id) == Cardinality({ i \in 1..Len(list) : list[i].id = id })

\* the FlexFX the latest store appended
Stored == flexFXList'[Len(flexFXList')]

\* The runs of C15: after the module's initialisation fiber 1 calls the four
\* create blocks in any order with user ids only (builtIn = 1000).
NextC15 ==
    \E id \in IdsReg, pitch \in PitchesReg :
        /\ Len(flexFXList) < MaxRegistry
        /\ Stores(1, id, pitch, UserDefined)

SpecC15 == Init /\ [][NextC15]_vars

\* C15: replace by name.  The registry never holds two FlexFX of the same id;
\* and after a FlexFX was stored with a user id (builtIn = 1000), the lookup
\* of that id gives the FlexFX just stored, wherever in the registry the
\* previous FlexFX of that id was.
C15_ReplaceByName ==
    /\ [](\A i, j \in 1..Len(flexFXList) :
             flexFXList[i].id = flexFXList[j].id => i = j)
    /\ [][ \A id \in IdsReg, pitch \in PitchesReg :
             Stores(1, id, pitch, UserDefined) =>
                /\ Stored.id = id
                /\ Stored.defaultFreq = pitch
                /\ find(flexFXList', id) = Len(flexFXList') ]_vars

C17_BuiltInSlot ==
    [][ \A id \in IdsReg, pitch \in PitchesReg :
          Stores(1, id, pitch, MIAOW) =>
             /\ Stored.id = builtInId[MIAOW + 1]
             /\ Stored.defaultFreq = pitch
             /\ CountId(flexFXList', builtInId[MIAOW + 1]) = 1
             /\ find(flexFXList', builtInId[MIAOW + 1]) = Len(flexFXList') ]_vars

\* ------------------------------------------------------ compiling the Plays
\* the input sets of the runs on the compiler: the time percentages (below 0,
\* above 100 and summing to more than 100 among them) and the performance
\* arguments (pitch, volume, duration; 0 asks for the default)
TimePercents == { -50, 0, 30, 60, 100, 150 }
IdsCompile == { "boing", "miaow", "horn", "siren", "violin" }
PlayArgsCompile ==
    { << pitch, volume, duration >> :
         pitch \in { 0, 300 }, volume \in { 0, 100 }, duration \in { 0, 333 } }
    \cup { << 0, 0, 7 >>, << 1000, 255, 1000 >> }

\* The runs on the compiler: fiber 1 pauses playback, so that the Plays stay
\* on the play-list as compilePlay built them; it then stores FlexFX "boing"
\* with any of the four create blocks and any time percentages, plays any
\* FlexFX in the background on the empty play-list and clears the play-list,
\* in any order.
NextCompile ==
    \/ /\ step.kind = "init"
       /\ StopPlaying(1)
    \/ /\ playerStopped
       /\ playList = << >>
       /\ \/ CreateFlexFX(1, "boing", 50, 50, 440, UserDefined)
          \/ \E timePercentA \in TimePercents :
                Create2PartFlexFX(1, "boing", timePercentA, 440, UserDefined)
          \/ \E timePercentA, timePercentB \in TimePercents :
                Create3PartFlexFX(1, "boing", timePercentA, timePercentB, 440, UserDefined)
          \/ \E timePercentA, timeGapPercent \in TimePercents :
                CreateDoubleFlexFX(1, "boing", timePercentA, timeGapPercent, 440, UserDefined)
    \/ /\ playerStopped
       /\ playList = << >>
       /\ \E id \in IdsCompile, a \in PlayArgsCompile :
             Room(MaxPlays) /\ PlayFlexFX(1, id, a[1], a[2], a[3], TRUE)
    \/ /\ playList # << >>
       /\ DeletePlaylist(1)

SpecCompile == Init /\ [][NextCompile]_vars

\* the time ratios of the parts that FlexFX <fx> declares, summed
TimeRatios(fx) ==
    (IF fx.playPartA THEN fx.timeRatioA ELSE 0)
    + (IF fx.playPartB \/ fx.skipPartB THEN fx.timeRatioB ELSE 0)
    + (IF fx.playPartC THEN fx.timeRatioC ELSE 0)

\* C18: the time ratios of the declared parts of every FlexFX of the registry
\* (A; A and B; A, B and C; A, gap and C) sum to exactly 1, whatever time
\* percentages it was created with; none of them is negative.
C18_TimeRatiosSumToOne ==
    \A i \in 1..Len(flexFXList) :
        /\ TimeRatios(flexFXList[i]) = RatioUnit
        /\ flexFXList[i].timeRatioA >= 0
        /\ flexFXList[i].timeRatioB >= 0
        /\ flexFXList[i].timeRatioC >= 0

\* C18 witness: a FlexFX created by create3PartFlexFX with 60% for part A and
\* 60% for part B: part B is cut to the 40% left and part C gets nothing.
C18_Witness ==
    /\ JustCalled("create3PartFlexFX")
    /\ flexFXList[Len(flexFXList)].id = "boing"
    /\ flexFXList[Len(flexFXList)].timeRatioA = Pct(60)
    /\ flexFXList[Len(flexFXList)].timeRatioB = Pct(40)
    /\ flexFXList[Len(flexFXList)].timeRatioC = 0

\* the duration of one part of a Play, counted in 1/RatioUnit ms: a sound
\* carries ms * timeRatio, a gap its whole number of ms
PartMs(part) == IF part.tag = "sound" THEN part.ms ELSE part.ms * RatioUnit

RECURSIVE TotalMs(_)
TotalMs(parts) ==
    IF parts = << >> THEN 0 ELSE PartMs(Head(parts)) + TotalMs(Tail(parts))

\* the Play appended by the step
Appended == playList'[Len(playList')]

\* C19: a Play compiled with a duration D other than 0 from a FlexFX whose
\* declared time ratios sum to 1 has parts (sounds and silent gap) whose
\* durations sum to D: exactly D when it has no gap, and less than 1 ms below
\* D, never above, when it has one (the gap is floored to whole ms).
C19_DurationsSumToD ==
    [][ JustCalled("playFlexFX")' =>
          \A id \in IdsCompile, a \in PlayArgsCompile :
             /\ find(flexFXList, id) # 0
             /\ a[3] # 0
             /\ TimeRatios(flexFXList[find(flexFXList, id)]) = RatioUnit
             /\ PlayFlexFX(1, id, a[1], a[2], a[3], TRUE)
             => /\ Len(playList') = Len(playList) + 1
                /\ TotalMs(Appended.parts) <= a[3] * RatioUnit
                /\ TotalMs(Appended.parts) > a[3] * RatioUnit - RatioUnit
                /\ (\A i \in 1..Len(Appended.parts) : Appended.parts[i].tag = "sound")
                      => TotalMs(Appended.parts) = a[3] * RatioUnit ]_vars

\* C19 witness: a Play with a silent gap has been compiled, and the floor of
\* the gap has lost a fraction of a millisecond.
C19_Witness ==
    /\ JustCalled("playFlexFX")
    /\ Len(playList) = 1
    /\ \E i \in 1..Len(playList[1].parts) : playList[1].parts[i].tag = "_"
    /\ TotalMs(playList[1].parts) % RatioUnit # 0

\* C20: profile continuity.  In the Play compiled from a FlexFX with a part
\* B, part B starts at the frequency and volume of point 1, where part A
\* ends; with a part C, part C starts at the frequency and volume of point 2,
\* where part B ends, be part B a sound or a silent gap.
C20_ProfileContinuity ==
    [][ JustCalled("playFlexFX")' =>
          \A id \in IdsCompile, a \in PlayArgsCompile :
             /\ find(flexFXList, id) # 0
             /\ PlayFlexFX(1, id, a[1], a[2], a[3], TRUE)
             => LET fx == flexFXList[find(flexFXList, id)]
                    freq == IF a[1] = 0 THEN fx.defaultFreq ELSE a[1]
                    vol == IF a[2] = 0 THEN fx.defaultVol ELSE a[2]
                    parts == Appended.parts
                IN  /\ parts[1].tag = "sound"
                    /\ parts[1].endFreq = freq * fx.freqRatio1
                    /\ parts[1].endVol = vol * fx.volRatio1
                    /\ fx.playPartB =>
                          /\ parts[2].tag = "sound"
                          /\ parts[2].startFreq = parts[1].endFreq
                          /\ parts[2].startVol = parts[1].endVol
                          /\ parts[2].endFreq = freq * fx.freqRatio2
                          /\ parts[2].endVol = vol * fx.volRatio2
                    /\ fx.skipPartB => parts[2].tag = "_"
                    /\ fx.playPartC =>
                          /\ Len(parts) = 3
                          /\ parts[3].tag = "sound"
                          /\ parts[3].startFreq = freq * fx.freqRatio2
                          /\ parts[3].startVol = vol * fx.volRatio2
                          /\ fx.playPartB =>
                                /\ parts[3].startFreq = parts[2].endFreq
                                /\ parts[3].startVol = parts[2].endVol
                    /\ \A i \in 1..(Len(parts) - 1) :
                          parts[i].tag = "sound" /\ parts[i + 1].tag = "sound" =>
                             /\ parts[i].endFreq = parts[i + 1].startFreq
                             /\ parts[i].endVol = parts[i + 1].startVol ]_vars

\* C20 witness: a Play of three sounds has been compiled from the three-part
\* FlexFX "boing" at pitch 300: the profile runs through 150 Hz at point 1
\* and 75 Hz at point 2.
C20_Witness ==
    /\ JustCalled("playFlexFX")
    /\ Len(playList) = 1
    /\ Len(playList[1].parts) = 3
    /\ playList[1].parts[2].tag = "sound"
    /\ playList[1].parts[1].endFreq = 300 * Pct(50)
    /\ playList[1].parts[2].startFreq = 300 * Pct(50)
    /\ playList[1].parts[2].endFreq = 300 * Pct(25)
    /\ playList[1].parts[3].startFreq = 300 * Pct(25)

\* C21: compilePlay picks up the defaults axis by axis.  For each of the
\* eight combinations of zero and non-zero pitch, volume and duration, the
\* Play is built from the FlexFX's defaultFreq where the pitch is 0 and from
\* the pitch given otherwise, and likewise, and independently, for the volume
\* with defaultVol and for the duration with defaultMs.
C21_DefaultsPerAxis ==
    [][ JustCalled("playFlexFX")' =>
          \A id \in IdsCompile, a \in PlayArgsCompile :
             /\ find(flexFXList, id) # 0
             /\ PlayFlexFX(1, id, a[1], a[2], a[3], TRUE)
             => LET fx == flexFXList[find(flexFXList, id)]
                    freq == IF a[1] # 0 THEN a[1] ELSE fx.defaultFreq
                    vol == IF a[2] # 0 THEN a[2] ELSE fx.defaultVol
                    ms == IF a[3] # 0 THEN a[3] ELSE fx.defaultMs
                    partA == Appended.parts[1]
                IN  /\ fx.defaultFreq # 0 /\ fx.defaultVol # 0 /\ fx.defaultMs # 0
                    /\ partA.startFreq = freq * fx.freqRatio0
                    /\ partA.endFreq = freq * fx.freqRatio1
                    /\ partA.startVol = vol * fx.volRatio0
                    /\ partA.endVol = vol * fx.volRatio1
                    /\ partA.ms = ms * fx.timeRatioA
                    /\ TotalMs(Appended.parts) <= ms * RatioUnit
                    /\ TotalMs(Appended.parts) > ms * RatioUnit - RatioUnit ]_vars

\* C21 witness: the one-part FlexFX "boing" (defaults 440 Hz, volume 200,
\* 800 ms) played with pitch 300 and no volume and no duration: the Play has
\* the pitch given and the default volume and duration.
C21_Witness ==
    /\ JustCalled("playFlexFX")
    /\ Len(playList) = 1
    /\ Len(playList[1].parts) = 1
    /\ playList[1].parts[1].startFreq = 300 * Pct(100)
    /\ playList[1].parts[1].startVol = 200 * Pct(100)
    /\ playList[1].parts[1].ms = 800 * RatioUnit

\* the input sets of the runs of C22: ids, the end pitch and volume
\* percentages (some beyond what the block offers) and the performance
\* arguments
IdsC22 == { "ting", "boing" }
EndPercentsC22 == { << 90, 80 >>, << 50, 50 >>, << 400, 100 >>, << -10, 150 >> }
PlayArgsC22 == { << 800, 200, 400 >>, << 0, 0, 0 >>, << 440, 255, 1000 >> }

\* The runs of C22: fiber 1 pauses playback, then stores one-part FlexFX with
\* createFlexFX, plays one of them in the background on the empty play-list
\* and clears the play-list, in any order.
NextC22 ==
    \/ /\ step.kind = "init"
       /\ StopPlaying(1)
    \/ /\ playerStopped
       /\ playList = << >>
       /\ Len(flexFXList) < MaxRegistry
       /\ \E id \in IdsC22, e \in EndPercentsC22 :
             CreateFlexFX(1, id, e[1], e[2], 800, UserDefined)
    \/ /\ playerStopped
       /\ playList = << >>
       /\ \E id \in IdsC22, a \in PlayArgsC22 :
             Room(MaxPlays) /\ PlayFlexFX(1, id, a[1], a[2], a[3], TRUE)
    \/ /\ playList # << >>
       /\ DeletePlaylist(1)

SpecC22 == Init /\ [][NextC22]_vars

\* C22: a one-part FlexFX compiles to a Play of exactly one sound, running
\* from (freq * freqRatio0, vol * volRatio0) to (freq * freqRatio1,
\* vol * volRatio1) over the whole duration.  In particular the FlexFX
\* created with pitch 100% to 90% and volume 100% to 80%, played with pitch
\* 800, volume 200 and duration 400, gives the one sound from (800, 200) to
\* (720, 160) lasting 400 ms.
C22_SinglePart ==
    [][ /\ JustCalled("playFlexFX")' =>
              \A id \in IdsC22, a \in PlayArgsC22 :
                 /\ find(flexFXList, id) # 0
                 /\ PlayFlexFX(1, id, a[1], a[2], a[3], TRUE)
                 => LET fx == flexFXList[find(flexFXList, id)]
                        freq == IF a[1] # 0 THEN a[1] ELSE fx.defaultFreq
                        vol == IF a[2] # 0 THEN a[2] ELSE fx.defaultVol
                        ms == IF a[3] # 0 THEN a[3] ELSE fx.defaultMs
                    IN  /\ Len(Appended.parts) = 1
                        /\ Appended.parts[1].tag = "sound"
                        /\ Appended.parts[1].startFreq = freq * fx.freqRatio0
                        /\ Appended.parts[1].startVol = vol * fx.volRatio0
                        /\ Appended.parts[1].endFreq = freq * fx.freqRatio1
                        /\ Appended.parts[1].endVol = vol * fx.volRatio1
                        /\ Appended.parts[1].ms = ms * RatioUnit
                        /\ fx.freqRatio0 = RatioUnit /\ fx.freqRatio1 = 90 * 100 /\
                           fx.volRatio0 = RatioUnit /\ fx.volRatio1 = 80 * 100 /\
                           a = << 800, 200, 400 >>
                           => Appended.parts =
                                 << [ tag |-> "sound", wave |-> "SINE",
                                      startFreq |-> 800 * RatioUnit,
                                      endFreq |-> 720 * RatioUnit,
                                      startVol |-> 200 * RatioUnit,
                                      endVol |-> 160 * RatioUnit,
                                      ms |-> 400 * RatioUnit,
                                      effect |-> "NONE", attack |-> "FAST" ] >>
        /\ JustCalled("createFlexFX")' =>
              \A id \in IdsC22 :
                 CreateFlexFX(1, id, 90, 80, 800, UserDefined) =>
                    /\ Stored.id = id
                    /\ Stored.freqRatio0 = RatioUnit /\ Stored.freqRatio1 = 90 * 100
                    /\ Stored.volRatio0 = RatioUnit /\ Stored.volRatio1 = 80 * 100
                    /\ Stored.timeRatioA = RatioUnit
                    /\ Stored.playPartA /\ ~Stored.playPartB /\ ~Stored.skipPartB
                    /\ ~Stored.playPartC ]_vars

\* C22 witness: "ting", created with pitch 100% to 90% and volume 100% to
\* 80%, has been played with pitch 800, volume 200 and duration 400.
C22_Witness ==
    /\ JustCalled("playFlexFX")
    /\ find(flexFXList, "ting") # 0
    /\ flexFXList[find(flexFXList, "ting")].freqRatio1 = 90 * 100
    /\ Len(playList) = 1
    /\ playList[1].parts =
          << [ tag |-> "sound", wave |-> "SINE",
               startFreq |-> 800 * RatioUnit, endFreq |-> 720 * RatioUnit,
               startVol |-> 200 * RatioUnit, endVol |-> 160 * RatioUnit,
               ms |-> 400 * RatioUnit, effect |-> "NONE", attack |-> "FAST" ] >>

\* the tags of the parts of a Play, in order
Tags(parts) == [ i \in 1..Len(parts) |-> parts[i].tag ]

\* C23: every Play on the play-list has at least one part, so that player()
\* finds a first part to look at.  The Play compiled from a FlexFX has its
\* parts in the order A, B, C: one sound for a one-part FlexFX, two sounds for
\* a two-part one, three sounds for a three-part one, and sound, silent gap,
\* sound for a double one; never more than three.
C23_PartsInOrder ==
    /\ [](\A i \in 1..Len(playList) : Len(playList[i].parts) >= 1)
    /\ [][ JustCalled("playFlexFX")' /\ playList' # playList =>
             Tags(Appended.parts) \in
                { << "sound" >>, << "sound", "sound" >>,
                  << "sound", "sound", "sound" >>, << "sound", "_", "sound" >> } ]_vars
    /\ [][ JustCalled("playFlexFX")' =>
             \A id \in IdsCompile, a \in PlayArgsCompile :
                /\ find(flexFXList, id) # 0
                /\ PlayFlexFX(1, id, a[1], a[2], a[3], TRUE)
                => LET fx == flexFXList[find(flexFXList, id)]
                       parts == Appended.parts
                   IN  /\ parts[1] = createSoundEffect(fx.waveA, parts[1].startFreq,
                                        parts[1].endFreq, parts[1].startVol, parts[1].endVol,
                                        parts[1].ms, fx.effectA, fx.attackA)
                       /\ Tags(parts) =
                             << "sound" >>
                             \o (IF fx.playPartB THEN << "sound" >>
                                 ELSE IF fx.skipPartB THEN << "_" >> ELSE << >>)
                             \o (IF fx.playPartC THEN << "sound" >> ELSE << >>)
                       /\ fx.playPartC => parts[Len(parts)].wave = fx.waveC
                       /\ fx.playPartB => parts[2].wave = fx.waveB ]_vars
    /\ [][ /\ JustCalled("createFlexFX")' =>
                 Stored.playPartA /\ ~Stored.playPartB /\ ~Stored.skipPartB /\ ~Stored.playPartC
           /\ JustCalled("create2PartFlexFX")' =>
                 Stored.playPartA /\ Stored.playPartB /\ ~Stored.skipPartB /\ ~Stored.playPartC
           /\ JustCalled("create3PartFlexFX")' =>
                 Stored.playPartA /\ Stored.playPartB /\ ~Stored.skipPartB /\ Stored.playPartC
           /\ JustCalled("createDoubleFlexFX")' =>
                 Stored.playPartA /\ ~Stored.playPartB /\ Stored.skipPartB /\ Stored.playPartC ]_vars

\* C23 witness: the Play compiled from the double FlexFX "boing": a sound, a
\* silent gap and a sound.
C23_Witness ==
    /\ JustCalled("playFlexFX")
    /\ Len(playList) = 1
    /\ Tags(playList[1].parts) = << "sound", "_", "sound" >>
    /\ playList[1].parts[1].wave = "SINE"

\* the input sets of the runs of C24: durations below 0 among them
PlayArgsC24 == { << 0, 0, 400 >>, << 0, 0, -400 >>, << 300, 100, -1 >> }
SilenceArgsC24 == { 1500, 0, -500 }

\* The runs of C24: fiber 1 pauses playback, then appends Plays and queued
\* pauses of any of the durations and clears the play-list, in any order.
NextC24 ==
    \/ /\ step.kind = "init"
       /\ StopPlaying(1)
    \/ /\ playerStopped
       /\ \E id \in IdsCompile, a \in PlayArgsC24 :
             Room(MaxPlays) /\ PlayFlexFX(1, id, a[1], a[2], a[3], TRUE)
    \/ /\ playerStopped
       /\ \E ms \in SilenceArgsC24 : Room(MaxPlays) /\ PerformSilence(1, ms)
    \/ /\ playList # << >>
       /\ DeletePlaylist(1)

SpecC24 == Init /\ [][NextC24]_vars

\* C24: whatever duration playFlexFX or performSilence is called with, a
\* negative one included, no sound, silent gap or queued pause on the
\* play-list has a negative duration.
C24_NoNegativeDuration ==
    \A i \in 1..Len(playList) :
        \A j \in 1..Len(playList[i].parts) : playList[i].parts[j].ms >= 0

\* The runs of C25: fiber 1 calls the blocks of the play-list in any order
\* and at any moment stores the FlexFX "boing" with one of the four create
\* blocks; player() runs as it is scheduled.
NextC25 ==
    \/ CallerOps(1)
    \/ /\ Len(flexFXList) < MaxRegistry
       /\ callers[1].st = "idle"
       /\ Stores(1, "boing", 440, UserDefined)
    \/ WorkerStep

SpecC25 == Init /\ [][NextC25]_vars

\* the step is a call of a create block
JustStored ==
    \/ JustCalled("createFlexFX")
    \/ JustCalled("create2PartFlexFX")
    \/ JustCalled("create3PartFlexFX")
    \/ JustCalled("createDoubleFlexFX")

\* the step is a call of a block that calls activatePlayer()
JustActivated ==
    \/ JustCalled("playFlexFX")
    \/ JustCalled("performSilence")
    \/ JustCalled("startPlaying")
    \/ JustCalled("awaitPlayStart")
    \/ JustCalled("awaitAllFinished")

\* C25 as stated: playerStopped is changed by stopPlaying() and
\* startPlaying() only, playerPlaying by player() only, and playerActive by
\* player() and by the blocks that call activatePlayer() only.
C25_OnlyStopAndStart ==
    [][ /\ playerStopped' # playerStopped =>
              JustCalled("stopPlaying")' \/ JustCalled("startPlaying")'
        /\ playerPlaying' # playerPlaying => step'.kind = "player"
        /\ playerActive' # playerActive => step'.kind = "player" \/ JustActivated' ]_vars

\* C25 as amended: playerPlaying is changed by player() only.  playerActive
\* is set only inside activatePlayer(), together with the start of a
\* player() fiber, and cleared only by player() when it ends.  playerStopped
\* is set by stopPlaying() only and cleared by startPlaying(), and by
\* awaitPlayStart() and awaitAllFinished() as well, only.  waitingToPlay(),
\* awaitPlayFinish(), deletePlaylist() and the create blocks change none of
\* the three flags.
C25_FlagOwners ==
    [][ /\ playerPlaying' # playerPlaying => step'.kind = "player"
        /\ ~playerActive /\ playerActive' =>
              /\ JustActivated'
              /\ workers' = Append(workers, NewWorker)
        /\ playerActive /\ ~playerActive' =>
              /\ step'.kind = "player"
              /\ Len(workers') = Len(workers) - 1
        /\ ~playerStopped /\ playerStopped' => JustCalled("stopPlaying")'
        /\ playerStopped /\ ~playerStopped' =>
              \/ JustCalled("startPlaying")'
              \/ JustCalled("awaitPlayStart")'
              \/ JustCalled("awaitAllFinished")'
        /\ step'.kind = "player" => playerStopped' = playerStopped
        /\ \/ JustCalled("waitingToPlay")'
           \/ JustCalled("awaitPlayFinish")'
           \/ JustCalled("deletePlaylist")'
           \/ JustStored'
           \/ step'.kind = "return"
           => UNCHANGED << playerPlaying, playerActive, playerStopped >> ]_vars

\* C25 witness: a FlexFX has just been stored while a Play is being performed
\* and playback is paused: the three flags are still set.
C25_Witness ==
    /\ JustCalled("create3PartFlexFX")
    /\ playerPlaying
    /\ playerActive
    /\ playerStopped

\* Play <s> waits on the play-list
OnList(s) == \E i \in 1..Len(playList) : playList[i].seq = s
\* the same in the state after the step
OnListAfter(s) == \E i \in 1..Len(playList') : playList'[i].seq = s
WasTakenAfter(s) == \E i \in 1..Len(taken') : taken'[i] = s

\* C26: every Play appended is consumed at most once.  It waits on the
\* play-list once; it leaves the play-list either taken by player(), once and
\* for good, or removed by deletePlaylist(); a Play taken is held by player()
\* until its last part and never returns to the play-list; a Play removed is
\* never taken and never returns either; whatever is paused, resumed,
\* cleared or appended meanwhile.
C26_ConsumedOnce ==
    /\ [](\A i, j \in 1..Len(taken) : taken[i] = taken[j] => i = j)
    /\ [](\A i, j \in 1..Len(playList) : playList[i].seq = playList[j].seq => i = j)
    /\ [](\A s \in 1..(nextSeq - 1) : ~(OnList(s) /\ WasTaken(s)))
    /\ [](\A w \in 1..Len(workers) :
             workers[w].play.seq # 0 => workers[w].play.seq = taken[Len(taken)])
    /\ [][ \A s \in 1..(nextSeq - 1) :
             /\ WasTaken(s) => WasTakenAfter(s) /\ ~OnListAfter(s)
             /\ ~WasTaken(s) /\ ~OnList(s) => ~WasTakenAfter(s) /\ ~OnListAfter(s)
             /\ OnList(s) /\ ~OnListAfter(s) =>
                   \/ /\ step'.kind = "player"
                      /\ taken' = Append(taken, s)
                      /\ Head(playList).seq = s
                   \/ /\ JustCalled("deletePlaylist")'
                      /\ ~WasTakenAfter(s) ]_vars

\* C26 witness: Play 1 was removed by deletePlaylist() while playback was
\* paused; Play 2, appended later, is being performed after startPlaying().
C26_Witness ==
    /\ JustCalled("startPlaying")
    /\ taken = << 2 >>
    /\ CurrentSeq = 2
    /\ playList = << >>

\* The runs of C27: fiber 1 appends Plays and queued pauses in the
\* background, fiber 2 pauses and resumes playback, both at any moment;
\* deletePlaylist() is not called; player() runs as it is scheduled, and
\* every sound and pause ends.
NextC27 ==
    \/ \E id \in Ids, a \in PlayArgs :
           Room(MaxPlays + 1) /\ PlayFlexFX(1, id, a[1], a[2], a[3], TRUE)
    \/ \E ms \in SilenceArgs : Room(MaxPlays + 1) /\ PerformSilence(1, ms)
    \/ StopPlaying(2)
    \/ StartPlaying(2)
    \/ WorkerStep

SpecC27 == Init /\ [][NextC27]_vars /\ WF_vars(WorkerStep)

\* C27: no Play is stranded: whenever the play-list is not empty and
\* playback is not paused, the player is active and a player() fiber exists,
\* also right after a Play was appended and right after player() ended.  And
\* if from some moment on playback is never paused, every Play appended is
\* taken off the play-list by player() and performed to its end.
C27_Drains ==
    /\ [](playList # << >> /\ ~playerStopped => playerActive /\ Len(workers) = 1)
    /\ \A s \in 1..(MaxPlays + 1) :
          <>[](~playerStopped) => [](OnList(s) => <>Finished(s))

\* C27 witness: player() ended because playback was paused during Play 1,
\* leaving Play 2 on the play-list; startPlaying() has just started a new
\* fiber for it.
C27_Witness ==
    /\ JustCalled("startPlaying")
    /\ taken = << 1 >>
    /\ workers = << NewWorker >>
    /\ OnList(2)

\* C28: a queued pause does not count as playing.  While player() sits in a
\* queued pause playerPlaying is false; the step that takes a queued pause
\* off the play-list raises no STARTING and nothing for that Play, and the
\* step that ends the pause raises no FINISHED and nothing for that Play: it
\* takes the next Play or ends player().  During every part of a Play, its
\* silent gap included, playerPlaying is true.
C28_QueuedPause ==
    /\ [](\A w \in 1..Len(workers) :
             /\ workers[w].pc = "pause" =>
                   /\ ~playerPlaying
                   /\ workers[w].sound.tag = "s"
                   /\ workers[w].play.parts = << >>
             /\ workers[w].pc = "sound" =>
                   /\ playerPlaying
                   /\ workers[w].sound.tag \in { "sound", "_" })
    /\ [][ JustCalled("performSilence")' =>
             Tags(Appended.parts) = << "s" >> ]_vars
    /\ [][ Dequeues /\ Head(Head(playList).parts).tag = "s" =>
             /\ ~playerPlaying'
             /\ \A i \in 1..Len(evs') :
                   evs'[i].ev # "STARTING" /\ evs'[i].seq # Head(playList).seq
             /\ workers' = << [ pc |-> "pause",
                                play |-> Play(Head(playList).seq, << >>),
                                sound |-> Head(Head(playList).parts) ] >> ]_vars
    /\ [][ \A w \in 1..Len(workers) :
              workers[w].pc = "pause" /\ step'.kind = "player" =>
                 /\ \A i \in 1..Len(evs') :
                       evs'[i].ev # "FINISHED" /\ evs'[i].seq # workers[w].play.seq
                 /\ \/ Dequeues
                    \/ workers' = << >> /\ ~playerActive' /\ ~playerPlaying' ]_vars

\* C28 witness: player() finished Play 1 and sits in the queued pause that
\* was appended behind it.
C28_Witness ==
    /\ workers # << >>
    /\ workers[1].pc = "pause"
    /\ taken = << 1, 2 >>
    /\ RaisedFor("FINISHED", 1)
    /\ ~playerPlaying

\* the Play player() is performing: it has raised STARTING for it and not
\* yet FINISHED
Performing(s) ==
    \E w \in 1..Len(workers) : workers[w].pc = "sound" /\ workers[w].play.seq = s
PerformingAfter(s) ==
    \E w \in 1..Len(workers') : workers'[w].pc = "sound" /\ workers'[w].play.seq = s

\* the places of the events called <name> among the events of the step
PlacesAfter(name) == { i \in 1..Len(evs') : evs'[i].ev = name }

\* C29: STARTING and FINISHED bracket every Play that is not a queued pause.
\*  - playerPlaying is true exactly while a Play is being performed, and at
\*    most one Play is being performed;
\*  - STARTING(s) is raised only by the step that takes Play s off the
\*    play-list, once, with no Play being performed at that moment (the one
\*    before it got its FINISHED first, in the same step), and player() then
\*    plays the first part of s; every Play taken that is not a queued pause
\*    gets its STARTING;
\*  - while it performs s, player() plays the parts in their order and
\*    raises nothing;
\*  - FINISHED(s) is raised only after the last part of s, once, as the first
\*    event of the step, and every Play performed ends with it;
\*  - ALLPLAYED is never raised while a Play is being performed.
C29_StartFinishBracket ==
    /\ [](/\ playerPlaying <=> \E s \in 1..MaxPlays : Performing(s)
          /\ \A s, t \in 1..MaxPlays : Performing(s) /\ Performing(t) => s = t
          /\ \A i, j \in 1..Len(taken) : taken[i] = taken[j] => i = j)
    /\ [][ \A s \in 1..MaxPlays :
             /\ Raises("STARTING", s) =>
                   /\ Dequeues
                   /\ Head(playList).seq = s
                   /\ ~IsQueuedPause(Head(playList))
                   /\ Cardinality(PlacesAfter("STARTING")) = 1
                   /\ evs'[Len(evs')] = Event("STARTING", s)
                   /\ \A t \in 1..MaxPlays : Performing(t) => evs'[1] = Event("FINISHED", t)
                   /\ playerPlaying'
                   /\ workers' = << [ pc |-> "sound",
                                      play |-> Play(s, Tail(Head(playList).parts)),
                                      sound |-> Head(Head(playList).parts) ] >>
             /\ Dequeues /\ Head(playList).seq = s /\ ~IsQueuedPause(Head(playList)) =>
                   Raises("STARTING", s)
             /\ Raises("FINISHED", s) =>
                   /\ Performing(s)
                   /\ workers[1].play.parts = << >>
                   /\ ~PerformingAfter(s)
                   /\ PlacesAfter("FINISHED") = { 1 }
                   /\ evs'[1] = Event("FINISHED", s)
             /\ Performing(s) /\ ~PerformingAfter(s) => Raises("FINISHED", s)
             /\ Performing(s) /\ PerformingAfter(s) /\ step'.kind = "player" =>
                   /\ evs' = << >>
                   /\ workers[1].play.parts # << >>
                   /\ workers' = << [ pc |-> "sound",
                                      play |-> Play(s, Tail(workers[1].play.parts)),
                                      sound |-> Head(workers[1].play.parts) ] >>
             /\ Performing(s) /\ step'.kind # "player" =>
                   PerformingAfter(s) /\ workers' = workers /\ playerPlaying' ]_vars
    /\ [][ PlacesAfter("ALLPLAYED") # { } =>
             /\ PlacesAfter("ALLPLAYED") = { Len(evs') }
             /\ PlacesAfter("STARTING") = { }
             /\ ~playerPlaying'
             /\ \A s \in 1..MaxPlays : ~PerformingAfter(s) ]_vars

\* C29 witness: player() went from one Play straight to the next: FINISHED
\* for Play 1 and STARTING for Play 2 in one step.
C29_Witness ==
    /\ evs = << Event("FINISHED", 1), Event("STARTING", 2) >>
    /\ Performing(2)
    /\ playerPlaying

\* player() ends in this step
PlayerEnds == step'.kind = "player" /\ Len(workers') < Len(workers)

\* C30, as stated: player() raises ALLPLAYED at its end exactly when the
\* play-list is empty and playback is not stopped; it raises none when it
\* ends with playback stopped.
C30_OnlyNaturalExhaustion ==
    [][ /\ PlayerEnds =>
              (Raises("ALLPLAYED", 0) <=> playList = << >> /\ ~playerStopped)
        /\ Raises("ALLPLAYED", 0) => PlayerEnds ]_vars

\* C30, amended: player() raises ALLPLAYED at its end exactly when the
\* play-list is empty at that moment, whether or not playback is stopped;
\* it raises none when it ends with Plays left, which happens only when
\* playback is stopped; and ALLPLAYED is raised nowhere else.
C30_WhenListEmpty ==
    [][ /\ PlayerEnds =>
              /\ Raises("ALLPLAYED", 0) <=> playList = << >>
              /\ playList # << >> => playerStopped
              /\ playList' = playList
              /\ ~playerActive'
        /\ Raises("ALLPLAYED", 0) => PlayerEnds ]_vars

\* C30 witness: stopPlaying() was called while player() performed the only
\* Play; player() has finished that Play and ended, raising ALLPLAYED with
\* playback stopped.
C30_Witness ==
    /\ playerStopped
    /\ stopAt = 1
    /\ nextSeq = 2
    /\ taken = << 1 >>
    /\ workers = << >>
    /\ evs = << Event("FINISHED", 1), Event("ALLPLAYED", 0) >>

\* C31: playerActive tracks the player() fiber.  It is true exactly while a
\* fiber started by activatePlayer() has not ended, and there is never more
\* than one; player() clears it when it ends, with the play-list empty or
\* with playback stopped; from there startPlaying(), and every Play appended
\* while playback is not stopped, starts a fresh fiber; and whenever the
\* flag is set, player() ends later and the flag is cleared.
C31_ActiveTracksWorker ==
    /\ [](playerActive <=> workers # << >>)
    /\ [](Len(workers) <= 1)
    /\ [][ PlayerEnds =>
             /\ ~playerActive'
             /\ workers' = << >>
             /\ playList = << >> \/ playerStopped ]_vars
    /\ [][ /\ ~playerActive
           /\ \/ JustCalled("startPlaying")'
              \/ nextSeq' # nextSeq /\ ~playerStopped
           => playerActive' /\ workers' = << NewWorker >> ]_vars
    /\ playerActive ~> ~playerActive

\* C31 witness: player() ended because playback was stopped, leaving a Play
\* on the play-list, and startPlaying() has just started a fresh fiber.
C31_Witness ==
    /\ step = Called("startPlaying", 2, 0)
    /\ playerActive
    /\ workers = << NewWorker >>
    /\ Finished(1)
    /\ playList # << >>

\* C32: between the blocks, a non-empty play-list with playback not stopped
\* always has an active player(), and so has a Play being performed: no
\* sequence of calls leaves pending Plays, playback enabled and no player().
C32_NoStrandedPlays ==
    /\ playList # << >> /\ ~playerStopped => playerActive /\ workers # << >>
    /\ playerPlaying => playerActive /\ workers # << >>

\* C32 witness: Plays were appended while playback was stopped and no
\* player() was running; awaitPlayStart() has enabled playback again and
\* started player().
C32_Witness ==
    /\ JustCalled("awaitPlayStart")
    /\ stopAt = 0
    /\ taken = << >>
    /\ Len(playList) = MaxPlays
    /\ ~playerStopped
    /\ workers = << NewWorker >>

\* the input sets of the runs of C33: the end pitch and volume percentages
\* and the time percentages (of part A, and of part B or the gap), in range
\* and far out of range on either side
EndPercentsC33 == { << 90, 80 >>, << 210000, 20000 >>, << -10, -5 >> }
TimesC33 == { << 30, 40 >>, << -50, 60 >>, << 150, 30 >>, << 60, 60 >>, << 0, 100 >> }

\* The runs of C33: fiber 1 stores FlexFX with the four create blocks, with
\* any of the arguments above.
NextC33 ==
    \E id \in IdsC22 :
        /\ Len(flexFXList) < MaxRegistry
        /\ \/ \E e \in EndPercentsC33 : CreateFlexFX(1, id, e[1], e[2], 800, UserDefined)
           \/ \E t \in TimesC33 :
                 \/ Create2PartFlexFX(1, id, t[1], 800, UserDefined)
                 \/ Create3PartFlexFX(1, id, t[1], t[2], 800, UserDefined)
                 \/ CreateDoubleFlexFX(1, id, t[1], t[2], 800, UserDefined)

SpecC33 == Init /\ [][NextC33]_vars

\* the ratios of a FlexFX are within their bounds
GoodRatios(fx) ==
    /\ \A f \in { fx.freqRatio0, fx.freqRatio1, fx.freqRatio2, fx.freqRatio3 } :
          0 <= f /\ f <= 2000 * RatioUnit
    /\ \A v \in { fx.volRatio0, fx.volRatio1, fx.volRatio2, fx.volRatio3 } :
          0 <= v /\ v <= 100 * RatioUnit
    /\ 0 <= fx.timeRatioA /\ fx.timeRatioA <= RatioUnit
    /\ 0 <= fx.timeRatioB /\ fx.timeRatioB <= RatioUnit - fx.timeRatioA
    /\ 0 <= fx.timeRatioC /\ fx.timeRatioC <= RatioUnit - fx.timeRatioA - fx.timeRatioB

\* the FlexFX the step has stored
StoredLast == flexFXList'[Len(flexFXList')]

\* C33: every FlexFX on the registry has its frequency ratios in [0, 2000],
\* its volume ratios in [0, 100] and its time ratios in [0, 1] and within
\* the time the parts before leave; a create block with arguments out of
\* range stores its FlexFX all the same, with the nearest bound in place of
\* the argument.
C33_RatiosBounded ==
    /\ [](\A i \in 1..Len(flexFXList) : GoodRatios(flexFXList[i]))
    /\ [][ step'.kind = "call" =>
             /\ flexFXList' # << >>
             /\ StoredLast.id \in IdsC22
             /\ \A e \in EndPercentsC33 :
                   CreateFlexFX(1, StoredLast.id, e[1], e[2], 800, UserDefined) =>
                      /\ StoredLast.freqRatio1 = Min(Max((e[1] * RatioUnit) \div 100, 0), 2000 * RatioUnit)
                      /\ StoredLast.volRatio1 = Min(Max((e[2] * RatioUnit) \div 100, 0), 100 * RatioUnit)
             /\ \A t \in TimesC33 :
                   Create3PartFlexFX(1, StoredLast.id, t[1], t[2], 800, UserDefined) =>
                      /\ StoredLast.timeRatioA = Min(Max((t[1] * RatioUnit) \div 100, 0), RatioUnit)
                      /\ StoredLast.timeRatioB =
                            Min(Max((t[2] * RatioUnit) \div 100, 0), RatioUnit - StoredLast.timeRatioA) ]_vars

\* C33 witness: the registry holds a FlexFX whose end pitch and volume were
\* clamped from above, after a block with a part A of 150% of the time has
\* stored a FlexFX whose part A takes all of the time.
C33_Witness ==
    /\ step.kind = "call"
    /\ \E i \in 1..Len(flexFXList) :
          /\ flexFXList[i].freqRatio1 = 2000 * RatioUnit
          /\ flexFXList[i].volRatio1 = 100 * RatioUnit
    /\ flexFXList[Len(flexFXList)].timeRatioA = RatioUnit
    /\ flexFXList[Len(flexFXList)].timeRatioB = 0
    /\ flexFXList[Len(flexFXList)].usesPoint2

\* the input sets of the runs of C34: built-in FlexFX of two, three and
\* double parts, and performances by default, twice as high, loud and long
\* as one another, and differing in the duration alone
IdsC34 == { "horn", "siren", "violin" }
PlayArgsC34 == { << 0, 0, 0 >>, << 300, 100, 333 >>, << 600, 200, 666 >>, << 300, 100, 666 >> }

\* The runs of C34: fiber 1 pauses playback, so that the Plays stay on the
\* play-list as compilePlay built them, then plays FlexFX in the background
\* one after the other, and clears the play-list.
NextC34 ==
    \/ /\ step.kind = "init"
       /\ StopPlaying(1)
    \/ /\ playerStopped
       /\ \E id \in IdsC34, a \in PlayArgsC34 :
             Room(MaxPlays) /\ PlayFlexFX(1, id, a[1], a[2], a[3], TRUE)
    \/ /\ playList # << >>
       /\ DeletePlaylist(1)

SpecC34 == Init /\ [][NextC34]_vars

\* part <q> is part <p> performed at pitch fq, volume vq and duration mq
\* instead of fp, vp and mp: the same shape, every value scaled by its own
\* argument alone (a silent gap is a whole number of ms, scaled up to rounding)
Rescaled(p, q, fp, vp, mp, fq, vq, mq) ==
    /\ p.tag = q.tag
    /\ p.tag = "sound" =>
          /\ q.wave = p.wave /\ q.effect = p.effect /\ q.attack = p.attack
          /\ q.startFreq % fq = 0 /\ q.startFreq \div fq = p.startFreq \div fp
          /\ q.endFreq % fq = 0 /\ q.endFreq \div fq = p.endFreq \div fp
          /\ q.startVol % vq = 0 /\ q.startVol \div vq = p.startVol \div vp
          /\ q.endVol % vq = 0 /\ q.endVol \div vq = p.endVol \div vp
          /\ q.ms % mq = 0 /\ q.ms \div mq = p.ms \div mp
    /\ p.tag = "_" =>
          /\ mq = mp => q.ms = p.ms
          /\ mq >= mp => q.ms >= p.ms

\* C34: compiling reads the FlexFX and writes the play-list only.  A call
\* of playFlexFX() leaves the registry as it was and appends one Play at
\* the end of the play-list; the Play it appends is, compared with any Play
\* on the list that was compiled from the same FlexFX, the same Play when
\* the arguments are the same, and otherwise the same parts scaled by the
\* arguments, each value by its own.
C34_CompileReadOnly ==
    [][ JustCalled("playFlexFX")' =>
          /\ flexFXList' = flexFXList
          /\ \A id \in IdsC34, a \in PlayArgsC34 :
                find(flexFXList, id) # 0 /\ PlayFlexFX(1, id, a[1], a[2], a[3], TRUE) =>
                   LET fx == flexFXList'[find(flexFXList', id)]
                   IN  /\ playList' = Append(playList, Appended)
                       /\ \A i \in 1..Len(playList), b \in PlayArgsC34 :
                             playList[i].parts = compilePlay(flexFXList[find(flexFXList, id)], b[1], b[2], b[3]) =>
                                /\ a = b => Appended.parts = playList[i].parts
                                /\ Len(Appended.parts) = Len(playList[i].parts)
                                /\ \A k \in 1..Len(Appended.parts) :
                                      Rescaled(playList[i].parts[k], Appended.parts[k],
                                               PickUp(b[1], fx.defaultFreq), PickUp(b[2], fx.defaultVol),
                                               PickUp(b[3], fx.defaultMs),
                                               PickUp(a[1], fx.defaultFreq), PickUp(a[2], fx.defaultVol),
                                               PickUp(a[3], fx.defaultMs)) ]_vars

\* C34 witness: the double FlexFX "siren" was compiled twice, the second
\* time twice as high, loud and long as the first.
C34_Witness ==
    /\ JustCalled("playFlexFX")
    /\ find(flexFXList, "siren") # 0
    /\ Len(playList) = 2
    /\ playList[1].parts = compilePlay(flexFXList[find(flexFXList, "siren")], 300, 100, 333)
    /\ playList[2].parts = compilePlay(flexFXList[find(flexFXList, "siren")], 600, 200, 666)
    /\ playList[2].parts[1].startFreq = 2 * playList[1].parts[1].startFreq
    /\ playList[2].parts[1].ms = 2 * playList[1].parts[1].ms

\* the canonical names of the four built-in FlexFX the module stores
BuiltInNames == { builtInId[MIAOW + 1], builtInId[HORN + 1],
                  builtInId[SIREN + 1], builtInId[VIOLIN + 1] }

====
